---- MODULE Spec2Model ----
(***************************************************************************)
(* Planner, plan execution and file mailbox of 09-front-back-agent:        *)
(*   PlannerAgent      createExecutionPlan, createTasks,                   *)
(*                     determineExecutionOrder                             *)
(*   OrchestratorV2    executeTasksFromPlan, executeTasks, executeAgent    *)
(*   OrchestratorAgent processMailboxRequests, processMailboxRequest       *)
(*   BackendAgent      applyApiChange                                      *)
(*                                                                         *)
(* The specifications share the variables:                                 *)
(*   SpecOrder      determineExecutionOrder on arbitrary task lists        *)
(*   SpecAnalyze    analyzeRequirements on small instruction documents     *)
(*   SpecPlan       createExecutionPlan followed by executeTasksFromPlan   *)
(*   SpecPlans      repeated planning runs, their plan files, and          *)
(*                  executeTasksFromPlan loading the latest one            *)
(*   SpecFullSequence                                                      *)
(*                  one executeFullSequence run next to a mailbox          *)
(*   SpecMailbox    request files written to the mailbox, repeated drains  *)
(*   SpecFaulty     a run, step by step, on a mailbox that stops working   *)
(*   SpecCrash      runs, step by step, of a process that may die          *)
(*   SpecConcurrent runs, step by step, of processes that overlap          *)
(***************************************************************************)
EXTENDS Integers, Sequences, FiniteSets, TLC

VARIABLES
    \* ---- determineExecutionOrder loop (planner.ts:248-273)
    tasks,          \* the TaskStep[] argument
    executed,       \* local `executed`
    remaining,      \* local `remaining`
    opc,            \* "sort" before line 250 ran, "loop" inside the while, "done" after return
    iterations,     \* history: how many times the body of the while loop has run
    \* ---- analyzeRequirements (planner.ts:120-151)
    document,       \* PlannerAgent.instructions: the text of instructions.md
    requirements,   \* the string[] analyzeRequirements returned
    apc,            \* "start" before the call, "done" after it
    \* ---- PlannerAgent + OrchestratorV2
    agentsConfig,   \* PlannerAgent.agentsConfig: the registered agent names
    reqText,        \* which keyword groups of determineNeededAgents match the requirements
    executionPlan,  \* OrchestratorV2.executionPlan (NoPlan = null)
    pc,             \* "start", "planned", "executing", "done", "aborted"
    cursor,         \* position of the for loop of executeTasks in executionOrder
    invoked,        \* task ids for which executeAgent was called, in call order
    completed,      \* task ids whose executeAgent returned normally, in order
    \* ---- OrchestratorAgent mailbox
    inbound,        \* comms/requests/to-backend : file name -> content
    processed,      \* comms/requests/_processed : file name -> content
    events,         \* comms/events/from-backend : event file name -> event
    outputs,        \* outputs/ : path -> what was written there last
    requestFiles,   \* the part of the readdir snapshot the for loop has not visited yet
    mpc,            \* "idle" between drains, "draining" inside processMailboxRequests
    written,        \* history: the request files ever written, in order; a file's uid is its index
    log,            \* history: one entry per processMailboxRequest call
    passStart,      \* history: the .json files of inbound when the current / last pass listed it
    quiet,          \* history: passes completed since a request file was last added
    tainted,        \* history: a request file was added during the current / last pass
    passes,         \* history: number of drain passes started
    \* ---- OrchestratorAgent runs seen step by step (SpecFaulty, SpecCrash, SpecConcurrent)
    orch,           \* per orchestrator process: where it is in processInstructions and its locals
    mailboxOk,      \* the comms/ directories can be read and written
    instructions,   \* instructions.md: whether it exists and which intent patterns match
    trace,          \* history: what the orchestrator processes did, in order
    \* ---- plan files of repeated planning runs (SpecPlans)
    now,            \* the system clock Date.now() reads, in milliseconds
    planFiles,      \* the files of outputs/ whose name starts with execution-plan-
    latestPlan,     \* local `latestPlan` of executeTasksFromPlan: the file it loaded last
    created,        \* history: one entry per createExecutionPlan call
    inputFiles      \* config/agents.json and instructions.md: whether each can be loaded

ovars == <<tasks, executed, remaining, opc, iterations, document, requirements, apc>>
pvars == <<agentsConfig, reqText, executionPlan, pc, cursor, invoked, completed>>
mvars == <<inbound, processed, events, outputs, requestFiles, mpc, written, log,
           passStart, quiet, tainted, passes>>
rvars == <<orch, mailboxOk, instructions, trace>>
fvars == <<now, planFiles, latestPlan, created, inputFiles>>
vars == <<ovars, pvars, mvars, rvars, fvars>>

----------------------------------------------------------------------------
\* Bounds of the model

MaxTasks == 3
MaxLines == 2
MaxIterations == 4
MaxPrio == 2
MaxDeps == 2
MaxRequests == 2
MaxPasses == 3
MaxInstances == 2
MaxRuns == 2
MaxCrashes == 1
MaxDrops == 1
MaxPlans == 2
MaxClock == 10

----------------------------------------------------------------------------
\* Generic helpers

Range(s) == {s[i] : i \in 1..Len(s)}

RemoveAt(s, i) == SubSeq(s, 1, i - 1) \o SubSeq(s, i + 1, Len(s))

----------------------------------------------------------------------------
\* PlannerAgent

\* `T${taskId++}`
TaskId(n) == <<"T", n>>

\* The agent names createTasks has a template for, plus one it has none for.
AgentNames == {"frontend-agent", "frontend-tests-agent", "backend-agent",
               "backend-tests-agent", "mermaid-agent", "readme-agent"}

\* The three regular expressions of determineNeededAgents applied to the
\* joined requirement text: frontend|ui|form, backend|api|server,
\* diagram|mermaid|architecture.
ReqTexts == [frontend : BOOLEAN, backend : BOOLEAN, diagram : BOOLEAN]

\* No pattern of determineNeededAgents matches: the instructions are empty.
NoRequirements == [frontend |-> FALSE, backend |-> FALSE, diagram |-> FALSE]

\* A variant that falls back to every registered agent with a template
\* when no pattern matches.
DetermineNeededAgentsDefault(cfg, rt) ==
    LET all == <<"frontend-agent", "frontend-tests-agent", "backend-agent",
                 "backend-tests-agent", "mermaid-agent">>
        agents == (IF rt.frontend THEN <<"frontend-agent", "frontend-tests-agent">> ELSE <<>>)
                  \o (IF rt.backend THEN <<"backend-agent", "backend-tests-agent">> ELSE <<>>)
                  \o (IF rt.diagram THEN <<"mermaid-agent">> ELSE <<>>)
        Available(a) == a \in cfg
    IN  SelectSeq(IF agents = <<>> THEN all ELSE agents, Available)

DetermineNeededAgents(cfg, rt) ==
    LET agents == (IF rt.frontend THEN <<"frontend-agent", "frontend-tests-agent">> ELSE <<>>)
                  \o (IF rt.backend THEN <<"backend-agent", "backend-tests-agent">> ELSE <<>>)
                  \o (IF rt.diagram THEN <<"mermaid-agent">> ELSE <<>>)
        Available(a) == a \in cfg
    IN  SelectSeq(agents, Available)

HasTemplate(agentName) ==
    agentName \in {"frontend-agent", "backend-agent", "frontend-tests-agent",
                   "backend-tests-agent", "mermaid-agent"}

\* The task literal pushed for agentName when the counter is taskId.
TaskTemplate(agentName, taskId) ==
    CASE agentName = "frontend-agent" ->
            [id |-> TaskId(taskId), agent |-> agentName, action |-> "enhance_frontend",
             dependencies |-> {}, priority |-> 2]
      [] agentName = "backend-agent" ->
            [id |-> TaskId(taskId), agent |-> agentName, action |-> "enhance_backend",
             dependencies |-> {}, priority |-> 1]
      [] agentName = "frontend-tests-agent" ->
            [id |-> TaskId(taskId), agent |-> agentName, action |-> "generate_frontend_tests",
             dependencies |-> {TaskId(1)}, priority |-> 3]
      [] agentName = "backend-tests-agent" ->
            [id |-> TaskId(taskId), agent |-> agentName, action |-> "generate_backend_tests",
             dependencies |-> {TaskId(2)}, priority |-> 3]
      [] agentName = "mermaid-agent" ->
            [id |-> TaskId(taskId), agent |-> agentName, action |-> "generate_diagram",
             dependencies |-> {}, priority |-> 4]

RECURSIVE CreateTasksFrom(_, _, _)
CreateTasksFrom(needed, taskId, cfg) ==
    IF needed = <<>> THEN <<>>
    ELSE LET agentName == Head(needed) IN
         IF agentName \notin cfg \/ ~HasTemplate(agentName)
         THEN CreateTasksFrom(Tail(needed), taskId, cfg)
         ELSE <<TaskTemplate(agentName, taskId)>>
              \o CreateTasksFrom(Tail(needed), taskId + 1, cfg)

\* A variant that creates a task for every matched agent, registered or not.
CreateTasksUnregistered(cfg, rt) ==
    CreateTasksFrom(DetermineNeededAgents(AgentNames, rt), 1, AgentNames)

CreateTasks(cfg, rt) == CreateTasksFrom(DetermineNeededAgents(cfg, rt), 1, cfg)

\* [...tasks].sort((a, b) => a.priority - b.priority): Array.prototype.sort is
\* stable, so a task goes behind every task of smaller or equal priority
\* that precedes it.
RECURSIVE InsertByPriority(_, _)
InsertByPriority(sorted, t) ==
    IF sorted = <<>> THEN <<t>>
    ELSE IF sorted[Len(sorted)].priority <= t.priority
         THEN Append(sorted, t)
         ELSE Append(InsertByPriority(SubSeq(sorted, 1, Len(sorted) - 1), t),
                     sorted[Len(sorted)])

RECURSIVE SortByPriority(_)
SortByPriority(ts) ==
    IF ts = <<>> THEN <<>>
    ELSE InsertByPriority(SortByPriority(SubSeq(ts, 1, Len(ts) - 1)), ts[Len(ts)])

\* task.dependencies.every(dep => executed.includes(dep))
IsReady(task, ex) == \A dep \in task.dependencies : dep \in Range(ex)

\* Positions in `remaining` of the elements of readyTasks.
ReadyIdx(ex, rem) == {i \in 1..Len(rem) : IsReady(rem[i], ex)}

\* A variant that removes the head of `remaining` whatever task it pushed.
OrderStepShift(ex, rem) ==
    IF ReadyIdx(ex, rem) = {}
    THEN [executed |-> Append(ex, Head(rem).id), remaining |-> Tail(rem)]
    ELSE LET i == CHOOSE j \in ReadyIdx(ex, rem) : \A k \in ReadyIdx(ex, rem) : j <= k
         IN  [executed |-> Append(ex, rem[i].id), remaining |-> Tail(rem)]

\* A variant that takes the last of the ready tasks instead of the first.
OrderStepLastReady(ex, rem) ==
    IF ReadyIdx(ex, rem) = {}
    THEN [executed |-> Append(ex, Head(rem).id), remaining |-> Tail(rem)]
    ELSE LET i == CHOOSE j \in ReadyIdx(ex, rem) : \A k \in ReadyIdx(ex, rem) : j >= k
         IN  [executed |-> Append(ex, rem[i].id), remaining |-> RemoveAt(rem, i)]

\* A variant whose fallback takes the remaining task with the smallest id
\* number instead of the head of the sorted list.
OrderStepFallbackById(ex, rem) ==
    IF ReadyIdx(ex, rem) = {}
    THEN LET i == CHOOSE j \in 1..Len(rem) : \A k \in 1..Len(rem) : rem[j].id[2] <= rem[k].id[2]
         IN  [executed |-> Append(ex, rem[i].id), remaining |-> RemoveAt(rem, i)]
    ELSE LET i == CHOOSE j \in ReadyIdx(ex, rem) : \A k \in ReadyIdx(ex, rem) : j <= k
         IN  [executed |-> Append(ex, rem[i].id), remaining |-> RemoveAt(rem, i)]

\* A variant without the fallback: with no ready task nothing is selected.
OrderStepNoFallback(ex, rem) ==
    IF ReadyIdx(ex, rem) = {}
    THEN [executed |-> ex, remaining |-> rem]
    ELSE LET i == CHOOSE j \in ReadyIdx(ex, rem) : \A k \in ReadyIdx(ex, rem) : j <= k
         IN  [executed |-> Append(ex, rem[i].id), remaining |-> RemoveAt(rem, i)]

\* One iteration of the while loop: the values of executed and remaining after it.
OrderStep(ex, rem) ==
    IF ReadyIdx(ex, rem) = {}
    THEN [executed |-> Append(ex, Head(rem).id), remaining |-> Tail(rem)]
    ELSE LET i == CHOOSE j \in ReadyIdx(ex, rem) : \A k \in ReadyIdx(ex, rem) : j <= k
         IN  [executed |-> Append(ex, rem[i].id), remaining |-> RemoveAt(rem, i)]

RECURSIVE OrderLoop(_, _)
OrderLoop(ex, rem) ==
    IF rem = <<>> THEN ex
    ELSE LET s == OrderStep(ex, rem) IN OrderLoop(s.executed, s.remaining)

DetermineExecutionOrder(ts) == OrderLoop(<<>>, SortByPriority(ts))

----------------------------------------------------------------------------
\* PlannerAgent.analyzeRequirements
\*
\* A text is a sequence of characters in which a run of characters that no
\* pattern of the function tells apart from letters (a phrase) is one element.

NewLine == "\n"

\* The phrases of the model.
PhoneLine == "Add phone field to registration"
BackendRequired == "Backend development required"
Note == "note"

\* String.length of one element of a text.
CharLength(c) ==
    CASE c = PhoneLine -> 31
      [] c = BackendRequired -> 28
      [] c = Note -> 4
      [] OTHER -> 1

RECURSIVE TextLength(_)
TextLength(t) == IF t = <<>> THEN 0 ELSE CharLength(Head(t)) + TextLength(Tail(t))

\* \d and \s
IsDigit(c) == c \in {"1", "2"}
IsSpace(c) == c \in {" ", NewLine}

\* The keywords of the pattern table that occur in a phrase, case ignored:
\* "required" holds "ui".
KeywordsIn(c) ==
    CASE c = PhoneLine -> {"phone"}
      [] c = BackendRequired -> {"backend", "ui"}
      [] OTHER -> {}

\* The pattern table of lines 135-142: regex and requirement.
Patterns ==
    << [keyword |-> "frontend", req |-> <<"Frontend development required">>],
       [keyword |-> "backend", req |-> <<BackendRequired>>],
       [keyword |-> "phone", req |-> <<"Phone field integration needed">>],
       [keyword |-> "test", req |-> <<"Testing implementation required">>],
       [keyword |-> "api", req |-> <<"API development/modification needed">>],
       [keyword |-> "ui", req |-> <<"UI modifications required">> ] >>

\* pattern.regex.test(this.instructions)
Occurs(keyword, t) == \E i \in 1..Len(t) : keyword \in KeywordsIn(t[i])

\* (?:\d+\.|\-|\*) tried at position i: the position behind the marker, 0 if
\* there is none.
MarkerEnd(t, i) ==
    IF i > Len(t) THEN 0
    ELSE IF t[i] \in {"-", "*"} THEN i + 1
    ELSE IF IsDigit(t[i])
         THEN LET j == CHOOSE k \in (i + 1)..(Len(t) + 1) :
                          /\ k = Len(t) + 1 \/ ~IsDigit(t[k])
                          /\ \A l \in (i + 1)..(k - 1) : IsDigit(t[l])
              IN  IF j <= Len(t) /\ t[j] = "." THEN j + 1 ELSE 0
    ELSE 0

\* \s*(.+) tried at position m: where the group starts, 0 if it cannot
\* match. \s* takes all the white space there is, line breaks included, and
\* gives some back only when nothing follows it; the dot takes no line break.
GroupStart(t, m) ==
    LET e == CHOOSE k \in m..(Len(t) + 1) :
                 /\ k = Len(t) + 1 \/ ~IsSpace(t[k])
                 /\ \A l \in m..(k - 1) : IsSpace(t[l])
        given == {q \in m..Len(t) : t[q] # NewLine}
    IN  IF e <= Len(t) THEN e
        ELSE IF given = {} THEN 0
        ELSE CHOOSE q \in given : \A r \in given : r <= q

\* (.+) from position q: the last position it takes, the end of the line.
GroupEnd(t, q) ==
    CHOOSE r \in q..Len(t) :
        /\ \A l \in q..r : t[l] # NewLine
        /\ r = Len(t) \/ t[r + 1] = NewLine

\* The marker and the rest of the pattern tried with the marker at position
\* i: the last position of the match, 0 if there is no match.
RestOfMatch(t, i) ==
    IF MarkerEnd(t, i) = 0 THEN 0
    ELSE IF GroupStart(t, MarkerEnd(t, i)) = 0 THEN 0
    ELSE GroupEnd(t, GroupStart(t, MarkerEnd(t, i)))

\* The whole pattern tried at position p: (?:^|\n) is the start of the text
\* (there is no m flag) or a line break.
MatchEnd(t, p) ==
    IF p = 1 /\ RestOfMatch(t, 1) # 0 THEN RestOfMatch(t, 1)
    ELSE IF p <= Len(t) /\ t[p] = NewLine THEN RestOfMatch(t, p + 1)
    ELSE 0

\* this.instructions.match(/.../g): the matches from position `from` on.
RECURSIVE TaskMatches(_, _)
TaskMatches(t, from) ==
    LET starts == {p \in from..Len(t) : MatchEnd(t, p) # 0} IN
    IF starts = {} THEN <<>>
    ELSE LET p == CHOOSE q \in starts : \A r \in starts : q <= r
         IN  <<SubSeq(t, p, MatchEnd(t, p))>> \o TaskMatches(t, MatchEnd(t, p) + 1)

\* A variant that pushes the match as it stands, marker included.
StripMarkerKeep(m) == m

\* match.replace(/^[\n\d\.\-\*\s]+/, '')
RECURSIVE StripMarker(_)
StripMarker(m) ==
    IF m # <<>> /\ (IsSpace(Head(m)) \/ IsDigit(Head(m)) \/ Head(m) \in {".", "-", "*"})
    THEN StripMarker(Tail(m))
    ELSE m

\* .trim()
RECURSIVE Trim(_)
Trim(m) ==
    IF m # <<>> /\ IsSpace(Head(m)) THEN Trim(Tail(m))
    ELSE IF m # <<>> /\ IsSpace(m[Len(m)]) THEN Trim(SubSeq(m, 1, Len(m) - 1))
    ELSE m

\* The forEach of lines 126-131 over the matches ms.
RECURSIVE ExplicitTasks(_)
ExplicitTasks(ms) ==
    IF ms = <<>> THEN <<>>
    ELSE LET task == Trim(StripMarker(Head(ms)))
         IN  (IF TextLength(task) > 10 THEN <<task>> ELSE <<>>) \o ExplicitTasks(Tail(ms))

\* The forEach of lines 144-148 from pattern k on, reqs being the
\* requirements so far.
RECURSIVE ImpliedFrom(_, _, _)
ImpliedFrom(t, k, reqs) ==
    IF k > Len(Patterns) THEN reqs
    ELSE ImpliedFrom(t, k + 1,
                     IF Occurs(Patterns[k].keyword, t) /\ Patterns[k].req \notin Range(reqs)
                     THEN Append(reqs, Patterns[k].req)
                     ELSE reqs)

AnalyzeRequirementsOf(t) == ImpliedFrom(t, 1, ExplicitTasks(TaskMatches(t, 1)))

\* The planner has analysed nothing.
AnalysisIdle == document = <<>> /\ requirements = <<>> /\ apc = "done"

\* What createExecutionPlan returns and saves for a registry and requirements.
CreateExecutionPlanFor(cfg, rt) ==
    LET ts == CreateTasks(cfg, rt)
    IN  [tasks |-> ts, executionOrder |-> DetermineExecutionOrder(ts)]

NoPlan == [tasks |-> <<>>, executionOrder |-> <<>>]

EmptyMap == [x \in {} |-> TRUE]

\* The values the variables of a component hold while another one is studied.
OrderIdle ==
    /\ tasks = <<>> /\ executed = <<>> /\ remaining = <<>> /\ opc = "done"
    /\ iterations = 0
    /\ AnalysisIdle

PlanIdle ==
    /\ agentsConfig = {} /\ reqText = [frontend |-> FALSE, backend |-> FALSE, diagram |-> FALSE]
    /\ executionPlan = NoPlan /\ pc = "done" /\ cursor = 1
    /\ invoked = <<>> /\ completed = <<>>

MailboxIdle ==
    /\ inbound = EmptyMap /\ processed = EmptyMap /\ events = EmptyMap
    /\ outputs = EmptyMap
    /\ requestFiles = <<>> /\ mpc = "idle" /\ written = <<>> /\ log = <<>>
    /\ passStart = EmptyMap /\ quiet = 0 /\ tainted = FALSE /\ passes = 0

\* An orchestrator process that is not running.
OrchOff == [pc |-> "off", run |-> 0, files |-> <<>>, held |-> <<>>, intents |-> <<>>]

\* instructions.md is missing.
NoInstructions == [exists |-> FALSE, matches |-> {}]

RunIdle ==
    /\ orch = [o \in 1..MaxInstances |-> OrchOff]
    /\ mailboxOk = TRUE /\ instructions = NoInstructions /\ trace = <<>>

\* The clock value the model starts from: one digit, so that the clock
\* passes a change in the number of decimal digits before MaxClock.
ClockStart == 9

\* No plan file has been chosen.
NoPlanFile == <<"", "", <<>>, "">>

\* Both input files of the planner are there and well-formed.
InputsOk == [agents |-> "ok", instructions |-> "ok"]

FilesIdle ==
    /\ now = ClockStart /\ planFiles = EmptyMap /\ latestPlan = NoPlanFile /\ created = <<>>
    /\ inputFiles = InputsOk

----------------------------------------------------------------------------
\* SpecOrder: determineExecutionOrder on an arbitrary task list

\* Task lists of 1..MaxTasks tasks with ids T1, T2, ... in declaration order,
\* priorities in 1..MaxPrio and at most MaxDeps dependencies in all; a
\* dependency may name the task itself, a later task, or (when the list is
\* shorter than MaxTasks) no task at all.
DepEdges(n) ==
    {E \in SUBSET ((1..n) \X (1..MaxTasks)) : Cardinality(E) <= MaxDeps}

\* The task list with n tasks, dependency edges E and priorities prio.
TaskList(n, E, prio) ==
    [i \in 1..n |-> [id |-> TaskId(i),
                     dependencies |-> {TaskId(e[2]) : e \in {x \in E : x[1] = i}},
                     priority |-> prio[i]]]

InitOrder ==
    /\ \E n \in 1..MaxTasks : \E E \in DepEdges(n) : \E prio \in [1..n -> 1..MaxPrio] :
          tasks = TaskList(n, E, prio)
    /\ executed = <<>> /\ remaining = <<>> /\ opc = "sort"
    /\ iterations = 0
    /\ AnalysisIdle
    /\ PlanIdle /\ MailboxIdle /\ RunIdle /\ FilesIdle

\* planner.ts:250-253
OrderSort ==
    /\ opc = "sort"
    /\ remaining' = SortByPriority(tasks)
    /\ executed' = <<>>
    /\ opc' = "loop"
    /\ UNCHANGED <<tasks, iterations, document, requirements, apc, pvars, mvars, rvars, fvars>>

\* planner.ts:255-270, one iteration
OrderIterate ==
    /\ opc = "loop" /\ Len(remaining) > 0
    /\ iterations < MaxIterations
    /\ LET s == OrderStep(executed, remaining)
       IN  executed' = s.executed /\ remaining' = s.remaining
    /\ iterations' = iterations + 1
    /\ UNCHANGED <<tasks, opc, document, requirements, apc, pvars, mvars, rvars, fvars>>

\* planner.ts:255 (loop exit) and 272
OrderReturn ==
    /\ opc = "loop" /\ Len(remaining) = 0
    /\ opc' = "done"
    /\ UNCHANGED <<tasks, executed, remaining, iterations, document, requirements, apc,
                   pvars, mvars, rvars, fvars>>

NextOrder == OrderSort \/ OrderIterate \/ OrderReturn

SpecOrder == InitOrder /\ [][NextOrder]_vars

----------------------------------------------------------------------------
\* SpecAnalyze: analyzeRequirements on instruction documents of a few lines

\* The lines a document is made of: items with each marker, an item too
\* short to count, a line without a marker, an indented item, an item whose
\* text starts with a digit, a marker alone on its line or followed by a
\* blank, an empty line, a digit without a period, an item with trailing
\* white space, a rule, an emphasised line.
DocumentLines ==
    { <<"1", ".", " ", PhoneLine>>,
      <<"-", " ", PhoneLine>>,
      <<"*", " ", BackendRequired>>,
      <<"-", " ", Note>>,
      <<PhoneLine>>,
      <<" ", "-", " ", PhoneLine>>,
      <<"2", ".", " ", "1", " ", PhoneLine>>,
      <<"-">>,
      <<"-", " ">>,
      <<>>,
      <<"1", PhoneLine>>,
      <<"1", "2", ".", BackendRequired, " ">>,
      <<"-", "-", "-">>,
      <<"*", "*", Note, " ", PhoneLine, "*", "*">> }

\* The lines joined by line breaks.
RECURSIVE JoinLines(_)
JoinLines(ls) ==
    IF ls = <<>> THEN <<>>
    ELSE IF Len(ls) = 1 THEN ls[1]
    ELSE ls[1] \o <<NewLine>> \o JoinLines(Tail(ls))

InitAnalyze ==
    /\ \E n \in 0..MaxLines : \E ls \in [1..n -> DocumentLines] : document = JoinLines(ls)
    /\ requirements = <<>> /\ apc = "start"
    /\ tasks = <<>> /\ executed = <<>> /\ remaining = <<>> /\ opc = "done" /\ iterations = 0
    /\ PlanIdle /\ MailboxIdle /\ RunIdle /\ FilesIdle

\* const requirements = this.analyzeRequirements()
AnalyzeRequirements ==
    /\ apc = "start"
    /\ requirements' = AnalyzeRequirementsOf(document)
    /\ apc' = "done"
    /\ UNCHANGED <<tasks, executed, remaining, opc, iterations, document,
                   pvars, mvars, rvars, fvars>>

NextAnalyze == AnalyzeRequirements

SpecAnalyze == InitAnalyze /\ [][NextAnalyze]_vars

----------------------------------------------------------------------------
\* SpecPlan: createExecutionPlan, then executeTasksFromPlan / executeTasks

InitPlan ==
    /\ agentsConfig \in SUBSET AgentNames
    /\ reqText \in ReqTexts
    /\ executionPlan = NoPlan /\ pc = "start" /\ cursor = 1
    /\ invoked = <<>> /\ completed = <<>>
    /\ OrderIdle /\ MailboxIdle /\ RunIdle /\ FilesIdle

\* OrchestratorV2.execute: this.executionPlan = await createExecutionPlan()
CreateExecutionPlan ==
    /\ pc = "start"
    /\ executionPlan' = CreateExecutionPlanFor(agentsConfig, reqText)
    /\ pc' = "planned"
    /\ UNCHANGED <<agentsConfig, reqText, cursor, invoked, completed, ovars, mvars, rvars, fvars>>

\* executeTasksFromPlan up to the call of executeTasks: the plan file just
\* saved is read back.
ExecuteTasksFromPlan ==
    /\ pc = "planned"
    /\ pc' = "executing"
    /\ cursor' = 1
    /\ UNCHANGED <<agentsConfig, reqText, executionPlan, invoked, completed, ovars, mvars, rvars, fvars>>

\* The agents for which executeAgent has a case that only logs.
NotYetImplemented == {"mermaid-agent", "smoke-test-agent", "readme-agent"}

\* The agents whose execute() runs and may throw.
Executable == {"frontend-agent", "backend-agent"}

\* A variant whose default case logs and returns instead of throwing.
ExecuteAgentOutcomesLenient(agentName) ==
    IF agentName \in Executable THEN {TRUE, FALSE} ELSE {TRUE}

\* The outcomes executeAgent(agentName) can have: TRUE it returns, FALSE it throws.
ExecuteAgentOutcomes(agentName) ==
    IF agentName \in NotYetImplemented THEN {TRUE}
    ELSE IF agentName \in Executable THEN {TRUE, FALSE}
    ELSE {FALSE}

\* this.executionPlan.tasks.find(t => t.id === taskId): the position, 0 if none
FindTask(plan, taskId) ==
    IF \E i \in 1..Len(plan.tasks) : plan.tasks[i].id = taskId
    THEN CHOOSE i \in 1..Len(plan.tasks) :
            /\ plan.tasks[i].id = taskId
            /\ \A j \in 1..(i - 1) : plan.tasks[j].id # taskId
    ELSE 0

\* A variant of the loop that walks executionOrder from its end.
ExecuteTaskFromEnd ==
    /\ pc = "executing" /\ cursor <= Len(executionPlan.executionOrder)
    /\ LET taskId == executionPlan.executionOrder[Len(executionPlan.executionOrder) + 1 - cursor]
           i == FindTask(executionPlan, taskId)
       IN  IF i = 0
           THEN /\ cursor' = cursor + 1
                /\ UNCHANGED <<pc, invoked, completed>>
           ELSE \E ok \in ExecuteAgentOutcomes(executionPlan.tasks[i].agent) :
                  /\ invoked' = Append(invoked, taskId)
                  /\ IF ok
                     THEN /\ completed' = Append(completed, taskId)
                          /\ cursor' = cursor + 1
                          /\ UNCHANGED pc
                     ELSE /\ pc' = "aborted"
                          /\ UNCHANGED <<completed, cursor>>
    /\ UNCHANGED <<agentsConfig, reqText, executionPlan, ovars, mvars, rvars, fvars>>

\* A variant of the loop body that goes on to the next task after a failure.
ExecuteTaskContinue ==
    /\ pc = "executing" /\ cursor <= Len(executionPlan.executionOrder)
    /\ LET taskId == executionPlan.executionOrder[cursor]
           i == FindTask(executionPlan, taskId)
       IN  IF i = 0
           THEN /\ cursor' = cursor + 1
                /\ UNCHANGED <<pc, invoked, completed>>
           ELSE \E ok \in ExecuteAgentOutcomes(executionPlan.tasks[i].agent) :
                  /\ invoked' = Append(invoked, taskId)
                  /\ completed' = IF ok THEN Append(completed, taskId) ELSE completed
                  /\ cursor' = cursor + 1
                  /\ UNCHANGED pc
    /\ UNCHANGED <<agentsConfig, reqText, executionPlan, ovars, mvars, rvars, fvars>>

\* executeTasks, one iteration of the for loop (lines 338-355)
ExecuteTask ==
    /\ pc = "executing" /\ cursor <= Len(executionPlan.executionOrder)
    /\ LET taskId == executionPlan.executionOrder[cursor]
           i == FindTask(executionPlan, taskId)
       IN  IF i = 0
           THEN /\ cursor' = cursor + 1
                /\ UNCHANGED <<pc, invoked, completed>>
           ELSE \E ok \in ExecuteAgentOutcomes(executionPlan.tasks[i].agent) :
                  /\ invoked' = Append(invoked, taskId)
                  /\ IF ok
                     THEN /\ completed' = Append(completed, taskId)
                          /\ cursor' = cursor + 1
                          /\ UNCHANGED pc
                     ELSE /\ pc' = "aborted"
                          /\ UNCHANGED <<completed, cursor>>
    /\ UNCHANGED <<agentsConfig, reqText, executionPlan, ovars, mvars, rvars, fvars>>

\* executeTasks: the for loop is exhausted (line 357)
ExecuteTasksDone ==
    /\ pc = "executing" /\ cursor > Len(executionPlan.executionOrder)
    /\ pc' = "done"
    /\ UNCHANGED <<agentsConfig, reqText, executionPlan, cursor, invoked, completed,
                   ovars, mvars, rvars, fvars>>

NextPlan == CreateExecutionPlan \/ ExecuteTasksFromPlan \/ ExecuteTask \/ ExecuteTasksDone

SpecPlan == InitPlan /\ [][NextPlan]_vars

----------------------------------------------------------------------------
\* OrchestratorAgent mailbox: request files, events, BackendAgent.applyApiChange

Put(f, k, v) == [x \in DOMAIN f \cup {k} |-> IF x = k THEN v ELSE f[x]]

Del(f, k) == [x \in DOMAIN f \ {k} |-> f[x]]

\* All orders in which a directory listing can return the names in S.
Listings(S) == {l \in [1..Cardinality(S) -> S] : Range(l) = S}

\* File names are <<stem, extension>>.
FileNames == {<<"REQ-1", ".json">>, <<"REQ-2", ".json">>, <<"notes", ".txt">>}

\* f.endsWith('.json')
EndsWithJson(f) == f[2] = ".json"

\* Paths are sequences of segments: outputs/backend/** is <<"outputs", "backend", "**">>.
AppsPath == <<"apps", "**">>
BackendPath == <<"outputs", "backend", "**">>

\* 'outputs/backend.ts', the file applyApiChange writes
BackendFile == <<"outputs", "backend.ts">>
OutputsBare == <<"outputs">>

\* path.startsWith('outputs/')
StartsWithOutputs(path) == Len(path) >= 2 /\ path[1] = "outputs"

\* Request ids are sequences of tokens: 'REQ-A' is <<"REQ-", "A">>; a request
\* without an id, or with one that is not a string, has isString FALSE.
StringId(text) == [isString |-> TRUE, text |-> text]
NoId == [isString |-> FALSE, text |-> <<>>]

\* s.replace(tok, ''): the first occurrence of tok is removed
RECURSIVE ReplaceFirst(_, _)
ReplaceFirst(s, tok) ==
    IF s = <<>> THEN <<>>
    ELSE IF Head(s) = tok THEN Tail(s)
    ELSE <<Head(s)>> \o ReplaceFirst(Tail(s), tok)

\* `EVT-${request.id.replace('REQ-', '')}`
EventId(id) == <<"EVT-">> \o ReplaceFirst(id.text, "REQ-")

\* join('comms/events/from-backend', `${event.id}.json`)
EventPath(eventId) == <<eventId, ".json">>

\* policySnapshot fields: writePaths may be missing (with or without the snapshot)
NoWritePaths == [hasWritePaths |-> FALSE, writePaths |-> <<>>]
WritePaths(ps) == [hasWritePaths |-> TRUE, writePaths |-> ps]

\* payload of an API_CHANGE request
Payload(change, hasResource, hasField) ==
    [present |-> TRUE, change |-> change, hasResource |-> hasResource, hasField |-> hasField]
NoPayload == [present |-> FALSE, change |-> "", hasResource |-> FALSE, hasField |-> FALSE]
GoodPayload == Payload("ADD_FIELD", TRUE, TRUE)

\* A parseable request file.
Request(id, to, policySnapshot, intent, payload) ==
    [json |-> TRUE, id |-> id, to |-> to, policySnapshot |-> policySnapshot,
     intent |-> intent, payload |-> payload]

\* A file that JSON.parse rejects.
Malformed ==
    [json |-> FALSE, id |-> NoId, to |-> "", policySnapshot |-> NoWritePaths,
     intent |-> "", payload |-> NoPayload]

\* Intents other than API_CHANGE that a request may carry.
OtherIntents == {"DB_CHANGE"}

\* The request files the frontend side (or anybody else) may drop in the mailbox.
RequestContents ==
    {Malformed}
    \cup {Request(StringId(<<"REQ-", "B">>), "frontend-agent", WritePaths(<<BackendPath>>),
                  "API_CHANGE", GoodPayload)}
    \cup {Request(StringId(<<"REQ-", "B">>), "backend-agent", ps, "API_CHANGE", GoodPayload)
            : ps \in {NoWritePaths, WritePaths(<<AppsPath>>), WritePaths(<<OutputsBare>>)}}
    \cup {Request(StringId(<<"REQ-", "A">>), "backend-agent", WritePaths(<<AppsPath, BackendPath>>),
                  "API_CHANGE", GoodPayload)}
    \cup {Request(StringId(<<"A">>), "backend-agent", WritePaths(<<BackendPath>>),
                  "API_CHANGE", pl)
            : pl \in {Payload("ADD_FIELD", TRUE, FALSE), Payload("RENAME_FIELD", TRUE, TRUE)}}
    \cup {Request(StringId(<<"REQ-", "A">>), "backend-agent", WritePaths(<<BackendPath>>),
                  "DB_CHANGE", GoodPayload)}
    \cup {Request(NoId, "backend-agent", WritePaths(<<BackendPath>>), "API_CHANGE", GoodPayload)}

ErrorNotes == "Error applying change"

\* `Unknown intent: ${request.intent}`
UnknownIntentNotes(intent) ==
    CASE intent = "DB_CHANGE" -> "Unknown intent: DB_CHANGE"
      [] OTHER -> "Unknown intent: undefined"

\* A variant of the default case that treats every intent as a field addition.
UnknownIntentAsChange(intent) ==
    [artifacts |-> <<BackendFile>>, notes |-> "Added field", wrote |-> TRUE]

\* Lines 368-372: the default case of the switch on request.intent; no worker
\* is called and nothing is written under outputs/.
UnknownIntent(intent) ==
    [artifacts |-> <<>>, notes |-> UnknownIntentNotes(intent), wrote |-> FALSE]

\* BackendAgent.applyApiChange: the result it returns and whether it wrote
\* outputs/backend.ts. Every exception is caught and reported in notes.
ApplyApiChange(payload) ==
    IF ~payload.present
    THEN [artifacts |-> <<>>, notes |-> ErrorNotes, wrote |-> FALSE]
    ELSE IF payload.change = "ADD_FIELD"
    THEN IF payload.hasResource /\ payload.hasField
         THEN [artifacts |-> <<BackendFile>>, notes |-> "Added field", wrote |-> TRUE]
         ELSE [artifacts |-> <<>>, notes |-> ErrorNotes, wrote |-> FALSE]
    ELSE [artifacts |-> <<>>, notes |-> "Unknown change type", wrote |-> TRUE]

\* request.policySnapshot?.writePaths || []
WritePathsOf(request) ==
    IF request.policySnapshot.hasWritePaths THEN request.policySnapshot.writePaths ELSE <<>>

\* A variant of the policy test that asks every write path to be under outputs/.
HasValidWritePathEvery(request) ==
    \A i \in 1..Len(WritePathsOf(request)) : StartsWithOutputs(WritePathsOf(request)[i])

\* writePaths.some(path => path.startsWith('outputs/'))
HasValidWritePath(request) ==
    \E i \in 1..Len(WritePathsOf(request)) : StartsWithOutputs(WritePathsOf(request)[i])

\* The Event literal of lines 376-384 (createdAt left out).
MakeEvent(request, result) ==
    [id |-> EventId(request.id), correlates |-> request.id, agent |-> "backend-agent",
     status |-> "DONE", artifacts |-> result.artifacts, notes |-> result.notes]

\* A variant of the routing test that accepts every addressee.
IsRoutableAny(request) == TRUE

\* request.to !== 'backend-agent' (line 348), negated
IsRoutable(request) == request.to = "backend-agent"

Entry(file, uid, outcome, called, event, moved) ==
    [file |-> file, uid |-> uid, outcome |-> outcome, called |-> called,
     event |-> event, moved |-> moved]

\* The history record of one processMailboxRequest call in drain number pass.
LogEntry(pass, e) ==
    [pass |-> pass, file |-> e.file, uid |-> e.uid, outcome |-> e.outcome,
     called |-> e.called, event |-> e.event, moved |-> e.moved]

\* A variant of the policy block that archives the blocked request.
PolicyBlockArchive(file, dirs) ==
    [dirs |-> [dirs EXCEPT !.inbound = Del(dirs.inbound, file),
                           !.processed = Put(dirs.processed, file, dirs.inbound[file])],
     entry |-> Entry(file, dirs.inbound[file].uid, "policy-blocked", FALSE, FALSE, TRUE)]

\* Lines 357-360: the blocked request is logged and the handler returns.
PolicyBlock(file, dirs) ==
    [dirs |-> dirs,
     entry |-> Entry(file, dirs.inbound[file].uid, "policy-blocked", FALSE, FALSE, FALSE)]

\* A variant of the parse failure that removes the file it could not parse.
ParseFailureDiscard(file, dirs) ==
    [dirs |-> [dirs EXCEPT !.inbound = Del(dirs.inbound, file)],
     entry |-> Entry(file, dirs.inbound[file].uid, "unparseable", FALSE, FALSE, FALSE)]

\* Line 340: JSON.parse throws, the catch at 398-400 logs and the handler returns.
ParseFailure(file, dirs) ==
    [dirs |-> dirs,
     entry |-> Entry(file, dirs.inbound[file].uid, "unparseable", FALSE, FALSE, FALSE)]

\* What processMailboxRequest does with one file, given the directories
\* dirs = [inbound, processed, events, outputs]: the directories afterwards
\* and a log entry telling what happened.
\*   file absent or unparseable : readFile / JSON.parse throws, caught at 398
\*   to # 'backend-agent'       : return at 350
\*   no valid write path        : return at 359
\*   intent API_CHANGE          : applyApiChange is called
\*   id not a string            : request.id.replace throws at 377, caught at 398
\*   otherwise                  : Event written, request renamed into _processed
Handle(file, dirs) ==
    IF file \notin DOMAIN dirs.inbound
    THEN [dirs |-> dirs, entry |-> Entry(file, 0, "unreadable", FALSE, FALSE, FALSE)]
    ELSE
    LET request == dirs.inbound[file].content
        uid == dirs.inbound[file].uid
    IN  IF ~request.json
        THEN ParseFailure(file, dirs)
        ELSE IF ~IsRoutable(request)
        THEN [dirs |-> dirs, entry |-> Entry(file, uid, "unroutable", FALSE, FALSE, FALSE)]
        ELSE IF ~HasValidWritePath(request)
        THEN PolicyBlock(file, dirs)
        ELSE
        LET called == request.intent = "API_CHANGE"
            result == IF called THEN ApplyApiChange(request.payload)
                      ELSE UnknownIntent(request.intent)
            outs2 == IF result.wrote
                     THEN Put(dirs.outputs, BackendFile,
                              [writer |-> "applyApiChange", uid |-> uid])
                     ELSE dirs.outputs
        IN  IF ~request.id.isString
            THEN [dirs |-> [dirs EXCEPT !.outputs = outs2],
                  entry |-> Entry(file, uid, "threw", called, FALSE, FALSE)]
            ELSE [dirs |-> [inbound |-> Del(dirs.inbound, file),
                            processed |-> Put(dirs.processed, file, dirs.inbound[file]),
                            events |-> Put(dirs.events, EventPath(EventId(request.id)),
                                           MakeEvent(request, result)),
                            outputs |-> outs2],
                  entry |-> Entry(file, uid, "done", called, TRUE, TRUE)]

----------------------------------------------------------------------------
\* SpecMailbox: request files are dropped in the mailbox and the orchestrator
\* is run again and again

InitMailbox ==
    /\ inbound = EmptyMap /\ processed = EmptyMap /\ events = EmptyMap
    /\ outputs = EmptyMap
    /\ requestFiles = <<>> /\ mpc = "idle" /\ written = <<>> /\ log = <<>>
    /\ passStart = EmptyMap /\ quiet = 0 /\ tainted = FALSE /\ passes = 0
    /\ OrderIdle /\ PlanIdle /\ RunIdle /\ FilesIdle

\* Somebody writes a new request file into comms/requests/to-backend.
WriteRequest ==
    /\ Len(written) < MaxRequests
    /\ \E f \in FileNames \ DOMAIN inbound : \E c \in RequestContents :
          /\ inbound' = Put(inbound, f, [content |-> c, uid |-> Len(written) + 1])
          /\ written' = Append(written, [file |-> f, content |-> c])
    /\ quiet' = 0
    /\ tainted' = (tainted \/ mpc = "draining")
    /\ UNCHANGED <<processed, events, outputs, requestFiles, mpc, log, passStart, passes,
                   ovars, pvars, rvars, fvars>>

\* processInstructions up to the for loop of processMailboxRequests:
\* outputs/ is removed, the inbound directory is listed and filtered; with no
\* request file the drain returns at once.
StartDrain ==
    /\ mpc = "idle" /\ passes < MaxPasses
    /\ passes' = passes + 1
    /\ outputs' = EmptyMap
    /\ LET names == {f \in DOMAIN inbound : EndsWithJson(f)} IN
         /\ passStart' = [f \in names |-> inbound[f]]
         /\ requestFiles' \in Listings(names)
         /\ IF names = {}
            THEN mpc' = "idle" /\ quiet' = quiet + 1
            ELSE mpc' = "draining" /\ quiet' = quiet
    /\ tainted' = FALSE
    /\ UNCHANGED <<inbound, processed, events, written, log, ovars, pvars, rvars, fvars>>

\* A variant of the loop body that gives up the drain at a file it does not complete.
ProcessMailboxRequestStop ==
    /\ mpc = "draining" /\ Len(requestFiles) > 0
    /\ LET h == Handle(Head(requestFiles),
                       [inbound |-> inbound, processed |-> processed,
                        events |-> events, outputs |-> outputs])
       IN  /\ inbound' = h.dirs.inbound
           /\ processed' = h.dirs.processed
           /\ events' = h.dirs.events
           /\ outputs' = h.dirs.outputs
           /\ log' = Append(log, LogEntry(passes, h.entry))
           /\ requestFiles' = IF h.entry.moved THEN Tail(requestFiles) ELSE <<>>
    /\ UNCHANGED <<mpc, written, passStart, quiet, tainted, passes, ovars, pvars, rvars, fvars>>

\* One iteration of the for loop of processMailboxRequests: processMailboxRequest(file)
ProcessMailboxRequest ==
    /\ mpc = "draining" /\ Len(requestFiles) > 0
    /\ LET h == Handle(Head(requestFiles),
                       [inbound |-> inbound, processed |-> processed,
                        events |-> events, outputs |-> outputs])
       IN  /\ inbound' = h.dirs.inbound
           /\ processed' = h.dirs.processed
           /\ events' = h.dirs.events
           /\ outputs' = h.dirs.outputs
           /\ log' = Append(log, LogEntry(passes, h.entry))
           /\ requestFiles' = Tail(requestFiles)
    /\ UNCHANGED <<mpc, written, passStart, quiet, tainted, passes, ovars, pvars, rvars, fvars>>

\* The for loop is exhausted: processMailboxRequests returns (line 327).
EndDrain ==
    /\ mpc = "draining" /\ Len(requestFiles) = 0
    /\ mpc' = "idle"
    /\ quiet' = IF tainted THEN 0 ELSE quiet + 1
    /\ UNCHANGED <<inbound, processed, events, outputs, requestFiles, written, log,
                   passStart, tainted, passes, ovars, pvars, rvars, fvars>>

NextMailbox == WriteRequest \/ StartDrain \/ ProcessMailboxRequest \/ EndDrain

SpecMailbox == InitMailbox /\ [][NextMailbox]_vars

----------------------------------------------------------------------------
\* OrchestratorAgent.processInstructions step by step: every file-system call
\* and every worker call of a run is a step of its own, so that a run can
\* meet a failing file system, stop in the middle, or overlap another
\* orchestrator process working on the same directories.

Instances == 1..MaxInstances

\* The intents in the order detectIntents tests their pattern groups.
IntentOrder == <<"TESTS", "FLOW", "README", "FRONTEND", "BACKEND", "FULLSTACK", "SUMMARY">>

\* instructions.md by the pattern groups of detectIntents that match it.
InstructionTexts ==
    {NoInstructions}
    \cup {[exists |-> TRUE, matches |-> m] : m \in {{}, {"README"}, {"FLOW", "BACKEND"}}}

DetectIntents(instr) ==
    LET Matches(intent) == intent \in instr.matches
    IN  SelectSeq(IntentOrder, Matches)

NoResult == [artifacts |-> <<>>, notes |-> "", wrote |-> FALSE]

\* The locals of processMailboxRequest once the request has been read.
Held(file, uid, request, result) ==
    <<[file |-> file, uid |-> uid, request |-> request, result |-> result]>>

\* One entry of the history: process inst, in its run number run, standing
\* at `at`, did op for the request with serial number uid (0: none).
TraceEntry(o, run, op, uid) ==
    [run |-> run, inst |-> o, op |-> op, uid |-> uid, at |-> orch[o].pc]

Crashes == Cardinality({i \in 1..Len(trace) : trace[i].op = "crash"})

\* processInstructions up to the for loop of processMailboxRequests
\* (lines 68-71, 304-318): outputs/ is removed, the three mkdir calls need a
\* working mailbox (their failure goes to the catch at 328), readdir failing
\* yields [], and with no request file the drain returns.
StartRun(o) ==
    /\ orch[o].pc = "off" /\ passes < MaxRuns
    /\ passes' = passes + 1
    /\ outputs' = EmptyMap
    /\ IF mailboxOk
       THEN LET names == {f \in DOMAIN inbound : EndsWithJson(f)} IN
            \E l \in Listings(names) :
                /\ orch' = [orch EXCEPT ![o] =
                              [pc |-> IF names = {} THEN "instructions" ELSE "loop",
                               run |-> passes + 1, files |-> l, held |-> <<>>,
                               intents |-> <<>>]]
                /\ trace' = Append(trace, TraceEntry(o, passes + 1, "list", 0))
       ELSE /\ orch' = [orch EXCEPT ![o] =
                          [pc |-> "instructions", run |-> passes + 1, files |-> <<>>,
                           held |-> <<>>, intents |-> <<>>]]
            /\ trace' = Append(trace, TraceEntry(o, passes + 1, "io-error", 0))
    /\ UNCHANGED <<inbound, processed, events, requestFiles, mpc, written, log, passStart,
                   quiet, tainted, mailboxOk, instructions, ovars, pvars, fvars>>

\* processMailboxRequest, lines 338-360: readFile, JSON.parse, routing and
\* policy checks. A failure of readFile or JSON.parse is caught at 398.
ReadRequest(o) ==
    /\ orch[o].pc = "loop" /\ Len(orch[o].files) > 0
    /\ LET file == Head(orch[o].files)
           rest == Tail(orch[o].files)
           Skip(op, uid) ==
               /\ orch' = [orch EXCEPT ![o].files = rest]
               /\ trace' = Append(trace, TraceEntry(o, orch[o].run, op, uid))
       IN  IF ~mailboxOk THEN Skip("io-error", 0)
           ELSE IF file \notin DOMAIN inbound THEN Skip("unreadable", 0)
           ELSE LET request == inbound[file].content
                    uid == inbound[file].uid
                IN  IF ~request.json THEN Skip("unparseable", uid)
                    ELSE IF ~IsRoutable(request) THEN Skip("unroutable", uid)
                    ELSE IF ~HasValidWritePath(request) THEN Skip("policy-blocked", uid)
                    ELSE /\ orch' = [orch EXCEPT ![o].files = rest, ![o].pc = "parsed",
                                                 ![o].held = Held(file, uid, request, NoResult)]
                         /\ trace' = Append(trace, TraceEntry(o, orch[o].run, "read", uid))
    /\ UNCHANGED <<mvars, mailboxOk, instructions, ovars, pvars, fvars>>

\* Lines 363-377: the switch on request.intent, then the Event literal, whose
\* id expression throws for a request id that is not a string.
Invoke(o) ==
    /\ orch[o].pc = "parsed"
    /\ LET h == orch[o].held[1]
           called == h.request.intent = "API_CHANGE"
           result == IF called THEN ApplyApiChange(h.request.payload)
                     ELSE UnknownIntent(h.request.intent)
       IN  /\ outputs' = IF result.wrote
                         THEN Put(outputs, BackendFile,
                                  [writer |-> "applyApiChange", uid |-> h.uid])
                         ELSE outputs
           /\ trace' = Append(trace, TraceEntry(o, orch[o].run,
                                                IF called THEN "invoke" ELSE "default", h.uid))
           /\ orch' = IF h.request.id.isString
                      THEN [orch EXCEPT ![o].pc = "invoked",
                                        ![o].held = Held(h.file, h.uid, h.request, result)]
                      ELSE [orch EXCEPT ![o].pc = "loop", ![o].held = <<>>]
    /\ UNCHANGED <<inbound, processed, events, requestFiles, mpc, written, log, passStart,
                   quiet, tainted, passes, mailboxOk, instructions, ovars, pvars, fvars>>

\* A variant that moves the request into _processed before it writes the Event.
WriteEventMoveFirst(o) ==
    /\ orch[o].pc = "invoked"
    /\ LET h == orch[o].held[1] IN
       /\ events' = Put(events, EventPath(EventId(h.request.id)), MakeEvent(h.request, h.result))
       /\ inbound' = Del(inbound, h.file)
       /\ processed' = IF h.file \in DOMAIN inbound
                       THEN Put(processed, h.file, inbound[h.file]) ELSE processed
       /\ orch' = [orch EXCEPT ![o].pc = "written"]
       /\ trace' = Append(trace, TraceEntry(o, orch[o].run, "event", h.uid))
    /\ UNCHANGED <<outputs, requestFiles, mpc, written, log, passStart,
                   quiet, tainted, passes, mailboxOk, instructions, ovars, pvars, fvars>>

\* Lines 386-388: fs.writeFile of the Event; its failure is caught at 398.
WriteEvent(o) ==
    /\ orch[o].pc = "invoked"
    /\ LET h == orch[o].held[1] IN
       IF mailboxOk
       THEN /\ events' = Put(events, EventPath(EventId(h.request.id)),
                             MakeEvent(h.request, h.result))
            /\ orch' = [orch EXCEPT ![o].pc = "written"]
            /\ trace' = Append(trace, TraceEntry(o, orch[o].run, "event", h.uid))
       ELSE /\ events' = events
            /\ orch' = [orch EXCEPT ![o].pc = "loop", ![o].held = <<>>]
            /\ trace' = Append(trace, TraceEntry(o, orch[o].run, "io-error", h.uid))
    /\ UNCHANGED <<inbound, processed, outputs, requestFiles, mpc, written, log, passStart,
                   quiet, tainted, passes, mailboxOk, instructions, ovars, pvars, fvars>>

\* Lines 390-392: fs.rename moves whatever is at the request path now into
\* _processed, replacing a file of that name; its failure is caught at 398.
Rename(o) ==
    /\ orch[o].pc = "written"
    /\ LET h == orch[o].held[1] IN
       IF mailboxOk /\ h.file \in DOMAIN inbound
       THEN /\ inbound' = Del(inbound, h.file)
            /\ processed' = Put(processed, h.file, inbound[h.file])
            /\ trace' = Append(trace, TraceEntry(o, orch[o].run, "rename", inbound[h.file].uid))
       ELSE /\ UNCHANGED <<inbound, processed>>
            /\ trace' = Append(trace, TraceEntry(o, orch[o].run,
                                   IF mailboxOk THEN "rename-failed" ELSE "io-error", h.uid))
    /\ orch' = [orch EXCEPT ![o].pc = "loop", ![o].held = <<>>]
    /\ UNCHANGED <<events, outputs, requestFiles, mpc, written, log, passStart,
                   quiet, tainted, passes, mailboxOk, instructions, ovars, pvars, fvars>>

\* The for loop is exhausted: processMailboxRequests returns (line 327).
EndDrainRun(o) ==
    /\ orch[o].pc = "loop" /\ Len(orch[o].files) = 0
    /\ orch' = [orch EXCEPT ![o].pc = "instructions"]
    /\ trace' = Append(trace, TraceEntry(o, orch[o].run, "end", 0))
    /\ UNCHANGED <<mvars, mailboxOk, instructions, ovars, pvars, fvars>>

\* processInstructions, lines 73-92: instructions.md is read and its intents
\* detected; without the file or without an intent the run is over.
ReadInstructions(o) ==
    /\ orch[o].pc = "instructions"
    /\ orch' = IF instructions.exists /\ DetectIntents(instructions) # <<>>
               THEN [orch EXCEPT ![o].pc = "tasks", ![o].intents = DetectIntents(instructions)]
               ELSE [orch EXCEPT ![o] = OrchOff]
    /\ UNCHANGED <<mvars, mailboxOk, instructions, trace, ovars, pvars, fvars>>

\* executeTask, lines 273-285: the intents whose case calls generateBackend.
GeneratesBackend(intent) == intent \in {"BACKEND", "FULLSTACK"}

\* BackendAgent.generateBackend: src/backend.ts with the modifications parsed
\* from instructions.md is written to outputs/backend.ts, replacing what is
\* there; an exception is caught and logged, and then nothing is written.
GenerateBackend(outs, wrote) ==
    IF wrote THEN Put(outs, BackendFile, [writer |-> "generateBackend", uid |-> 0])
    ELSE outs

\* Lines 100-102, one iteration: executeTask(intent) hands the intent to its
\* sub-agents; an exception ends the run in the catch at 114.
ExecuteIntent(o) ==
    /\ orch[o].pc = "tasks" /\ Len(orch[o].intents) > 0
    /\ trace' = Append(trace, TraceEntry(o, orch[o].run, "task", 0))
    /\ IF GeneratesBackend(Head(orch[o].intents))
       THEN \E wrote \in BOOLEAN : outputs' = GenerateBackend(outputs, wrote)
       ELSE outputs' = outputs
    /\ \E ok \in BOOLEAN :
          orch' = IF ok THEN [orch EXCEPT ![o].intents = Tail(orch[o].intents)]
                  ELSE [orch EXCEPT ![o] = OrchOff]
    /\ UNCHANGED <<inbound, processed, events, requestFiles, mpc, written, log, passStart,
                   quiet, tainted, passes, mailboxOk, instructions, ovars, pvars, fvars>>

\* Line 104: every intent has been executed.
TasksDone(o) ==
    /\ orch[o].pc = "tasks" /\ Len(orch[o].intents) = 0
    /\ orch' = [orch EXCEPT ![o] = OrchOff]
    /\ UNCHANGED <<mvars, mailboxOk, instructions, trace, ovars, pvars, fvars>>

\* The steps of the mailbox drain of process o.
DrainSteps(o) ==
    \/ StartRun(o)
    \/ ReadRequest(o)
    \/ Invoke(o)
    \/ WriteEvent(o)
    \/ Rename(o)
    \/ EndDrainRun(o)
    \/ ReadInstructions(o)

----------------------------------------------------------------------------
\* SpecFaulty: one orchestrator process and a mailbox that stops working

InitFaulty ==
    /\ orch = [o \in Instances |-> OrchOff]
    /\ mailboxOk = TRUE /\ trace = <<>>
    /\ instructions \in InstructionTexts
    /\ MailboxIdle /\ OrderIdle /\ PlanIdle /\ FilesIdle

\* From now on every read and write under comms/ fails.
MailboxFails ==
    /\ mailboxOk
    /\ mailboxOk' = FALSE
    /\ UNCHANGED <<mvars, orch, instructions, trace, ovars, pvars, fvars>>

NextFaulty ==
    \/ (mailboxOk /\ WriteRequest)
    \/ DrainSteps(1)
    \/ ExecuteIntent(1)
    \/ TasksDone(1)
    \/ MailboxFails

SpecFaulty == InitFaulty /\ [][NextFaulty]_vars

----------------------------------------------------------------------------
\* SpecCrash: one orchestrator process that may die at any step; the next run
\* starts from what is on disk

InitCrash ==
    /\ orch = [o \in Instances |-> OrchOff]
    /\ mailboxOk = TRUE /\ trace = <<>>
    /\ instructions = NoInstructions
    /\ MailboxIdle /\ OrderIdle /\ PlanIdle /\ FilesIdle

\* The process dies where it stands: its locals are gone, the files stay.
Crash(o) ==
    /\ orch[o].pc # "off" /\ Crashes < MaxCrashes
    /\ trace' = Append(trace, TraceEntry(o, orch[o].run, "crash",
                                         IF orch[o].held = <<>> THEN 0 ELSE orch[o].held[1].uid))
    /\ orch' = [orch EXCEPT ![o] = OrchOff]
    /\ UNCHANGED <<mvars, mailboxOk, instructions, ovars, pvars, fvars>>

NextCrash ==
    \/ (Len(written) < MaxDrops /\ WriteRequest)
    \/ DrainSteps(1)
    \/ Crash(1)

SpecCrash == InitCrash /\ [][NextCrash]_vars

----------------------------------------------------------------------------
\* SpecConcurrent: orchestrator processes started on the same directories,
\* their file-system calls interleaved in any way

InitConcurrent ==
    /\ orch = [o \in Instances |-> OrchOff]
    /\ mailboxOk = TRUE /\ trace = <<>>
    /\ instructions = NoInstructions
    /\ MailboxIdle /\ OrderIdle /\ PlanIdle /\ FilesIdle

NextConcurrent ==
    \/ (Len(written) < MaxDrops /\ WriteRequest)
    \/ \E o \in Instances : DrainSteps(o)

SpecConcurrent == InitConcurrent /\ [][NextConcurrent]_vars

----------------------------------------------------------------------------
\* SpecFullSequence: one OrchestratorV2.executeFullSequence run (execute,
\* then executeTasksFromPlan) next to a mailbox other processes write to.
\* No method of OrchestratorV2 reads or writes comms/.

InitFullSequence == InitPlan

NextFullSequence ==
    \/ (Len(written) < MaxDrops /\ WriteRequest)
    \/ CreateExecutionPlan
    \/ ExecuteTasksFromPlan
    \/ ExecuteTask
    \/ ExecuteTasksDone

SpecFullSequence == InitFullSequence /\ [][NextFullSequence]_vars

----------------------------------------------------------------------------
\* SpecPlans: planning runs repeated on the same configuration and
\* instructions, each saving its plan file, then executeTasksFromPlan

\* String(n) for a non-negative integer: its decimal digits
RECURSIVE Digits(_)
Digits(n) == IF n < 10 THEN <<n>> ELSE Append(Digits(n \div 10), n % 10)

\* `PLAN-${Date.now()}`
PlanId(t) == <<"PLAN-", Digits(t)>>

\* `outputs/execution-plan-${plan.planId}.json`, as readdirSync('outputs') names it
PlanPath(planId) == <<"execution-plan-", planId[1], planId[2], ".json">>

\* f.startsWith('execution-plan-')
StartsWithExecutionPlan(f) == f[1] = "execution-plan-"

\* The UTF-16 code units of a plan file name behind the common prefix
\* execution-plan-PLAN- and up to the dot of .json: '0'..'9' are 48..57, '.' is 46.
CodeUnits(f) == [i \in 1..Len(f[3]) |-> 48 + f[3][i]] \o <<46>>

\* The default comparison of Array.prototype.sort: by code units, a proper
\* prefix first.
RECURSIVE LexLess(_, _)
LexLess(a, b) ==
    IF a = <<>> THEN b # <<>>
    ELSE IF b = <<>> THEN FALSE
    ELSE IF Head(a) # Head(b) THEN Head(a) < Head(b)
    ELSE LexLess(Tail(a), Tail(b))

\* planFiles.sort().pop()
Latest(names) ==
    CHOOSE f \in names : \A g \in names \ {f} : LexLess(CodeUnits(g), CodeUnits(f))

\* What existsSync, readFileSync and JSON.parse can make of an input file.
AgentsFileStates == {"ok", "missing", "unparseable"}
InstructionsFileStates == {"ok", "missing", "unreadable"}

\* loadAgentsConfig: config.agents of the parsed file, [] when the file is
\* missing or cannot be parsed (the catch block).
LoadAgentsConfig(state, content) == IF state = "ok" THEN content ELSE {}

\* loadInstructions: the text of the file, '' when it is missing or cannot
\* be read; no pattern matches ''.
LoadInstructions(state, matches) == IF state = "ok" THEN matches ELSE NoRequirements

\* The input files do not change during a behaviour, so the values every
\* createExecutionPlan call loads from them are fixed at the start.
InitPlans ==
    /\ inputFiles \in [agents : AgentsFileStates, instructions : InstructionsFileStates]
    /\ \E content \in SUBSET AgentNames :
          agentsConfig = LoadAgentsConfig(inputFiles.agents, content)
    /\ \E matches \in ReqTexts :
          reqText = LoadInstructions(inputFiles.instructions, matches)
    /\ executionPlan = NoPlan /\ pc = "start" /\ cursor = 1
    /\ invoked = <<>> /\ completed = <<>>
    /\ now = ClockStart /\ planFiles = EmptyMap /\ latestPlan = NoPlanFile /\ created = <<>>
    /\ OrderIdle /\ MailboxIdle /\ RunIdle

\* A variant whose task counter goes on from the tasks of the earlier runs.
PlanningRunCarryIds ==
    /\ pc \in {"start", "planned"} /\ Len(created) < MaxPlans
    /\ LET ts == CreateTasksFrom(DetermineNeededAgents(agentsConfig, reqText),
                                 1 + Len(created), agentsConfig)
           plan == [tasks |-> ts, executionOrder |-> DetermineExecutionOrder(ts)]
           planId == PlanId(now)
       IN  \E saved \in BOOLEAN :
             /\ executionPlan' = plan
             /\ planFiles' = IF saved
                             THEN Put(planFiles, PlanPath(planId),
                                      [planId |-> planId, plan |-> plan,
                                       serial |-> Len(created) + 1])
                             ELSE planFiles
             /\ created' = Append(created,
                                  [planId |-> planId, agentsConfig |-> agentsConfig,
                                   reqText |-> reqText, tasks |-> plan.tasks,
                                   executionOrder |-> plan.executionOrder, saved |-> saved])
    /\ pc' = "planned"
    /\ UNCHANGED <<agentsConfig, reqText, cursor, invoked, completed, now, latestPlan,
                   inputFiles, ovars, mvars, rvars>>

\* OrchestratorV2.execute: createExecutionPlan loads the configuration and
\* the instructions, builds tasks and order, stamps the plan with the clock
\* and saves it; writeFileSync replaces a file of the same name, and its
\* failure is logged by savePlan and goes no further.
PlanningRun ==
    /\ pc \in {"start", "planned"} /\ Len(created) < MaxPlans
    /\ LET plan == CreateExecutionPlanFor(agentsConfig, reqText)
           planId == PlanId(now)
       IN  \E saved \in BOOLEAN :
             /\ executionPlan' = plan
             /\ planFiles' = IF saved
                             THEN Put(planFiles, PlanPath(planId),
                                      [planId |-> planId, plan |-> plan,
                                       serial |-> Len(created) + 1])
                             ELSE planFiles
             /\ created' = Append(created,
                                  [planId |-> planId, agentsConfig |-> agentsConfig,
                                   reqText |-> reqText, tasks |-> plan.tasks,
                                   executionOrder |-> plan.executionOrder, saved |-> saved])
    /\ pc' = "planned"
    /\ UNCHANGED <<agentsConfig, reqText, cursor, invoked, completed, now, latestPlan,
                   inputFiles, ovars, mvars, rvars>>

\* executeTasksFromPlan up to the call of executeTasks (lines 305-318): the
\* plan files are listed, none is an error, the last one in sort order is
\* parsed and becomes the plan to execute.
LoadLatestPlan ==
    /\ pc \in {"start", "planned"}
    /\ LET names == {f \in DOMAIN planFiles : StartsWithExecutionPlan(f)} IN
       IF names = {}
       THEN /\ pc' = "aborted"
            /\ UNCHANGED <<executionPlan, latestPlan, cursor>>
       ELSE /\ latestPlan' = Latest(names)
            /\ executionPlan' = planFiles[Latest(names)].plan
            /\ pc' = "executing"
            /\ cursor' = 1
    /\ UNCHANGED <<agentsConfig, reqText, invoked, completed, now, planFiles, created,
                   inputFiles, ovars, mvars, rvars>>

\* A millisecond passes.
Tick ==
    /\ now < MaxClock
    /\ now' = now + 1
    /\ UNCHANGED <<planFiles, latestPlan, created, inputFiles, ovars, pvars, mvars, rvars>>

\* The system clock is corrected backwards: Date.now() is wall-clock time.
ClockSetBack ==
    /\ now > ClockStart
    /\ now' \in ClockStart..(now - 1)
    /\ UNCHANGED <<planFiles, latestPlan, created, inputFiles, ovars, pvars, mvars, rvars>>

NextPlans ==
    \/ PlanningRun
    \/ LoadLatestPlan
    \/ ExecuteTask
    \/ ExecuteTasksDone
    \/ Tick
    \/ ClockSetBack

SpecPlans == InitPlans /\ [][NextPlans]_vars

----------------------------------------------------------------------------
\* Properties of the planner and of plan execution

Ids(ts) == {ts[i].id : i \in 1..Len(ts)}

\* d occurs in order at an earlier position than t
Before(order, d, t) ==
    \E i, j \in 1..Len(order) : i < j /\ order[i] = d /\ order[j] = t

\* Removes, as long as there is one, a task that depends on no task left.
RECURSIVE Peel(_)
Peel(S) ==
    IF \E t \in S : t.dependencies \cap {u.id : u \in S} = {}
    THEN Peel(S \ {CHOOSE t \in S : t.dependencies \cap {u.id : u \in S} = {}})
    ELSE S

\* No task reaches itself along declared dependencies.
Acyclic(ts) == Peel(Range(ts)) = {}

Topological(ts, order) ==
    \A i \in 1..Len(ts) : \A d \in ts[i].dependencies : Before(order, d, ts[i].id)

\* order holds every id of ts exactly once and nothing else
IsPermutation(ts, order) ==
    /\ Len(order) = Len(ts)
    /\ \A i \in 1..Len(ts) : Cardinality({j \in 1..Len(order) : order[j] = ts[i].id}) = 1
    /\ Range(order) \subseteq Ids(ts)

\* C1: in every plan createExecutionPlan produces whose declared dependencies
\* are acyclic, each dependency of a task occurs in executionOrder before the
\* task itself.
C1_TopologicalOrder ==
    (pc # "start" /\ Acyclic(executionPlan.tasks))
        => Topological(executionPlan.tasks, executionPlan.executionOrder)

\* C2: the order determineExecutionOrder returns is a permutation of the task
\* ids, whatever the dependencies are (cyclic, self-referencing, dangling).
C2_OrderIsPermutation ==
    opc = "done" => IsPermutation(tasks, executed)

\* A full-size task list with a self-dependency and a dangling or cyclic
\* dependency has been ordered.
C2_Witness ==
    /\ opc = "done"
    /\ Len(tasks) >= 2
    /\ \E i \in 1..Len(tasks) : tasks[i].id \in tasks[i].dependencies
    /\ \E i \in 1..Len(tasks) : \E d \in tasks[i].dependencies :
          d # tasks[i].id /\ ~Before(executed, d, tasks[i].id)

\* C3: when the invocation for the k-th entry of executionOrder fails the run
\* is aborted with entries 1..k-1 invoked once and completed, entry k invoked
\* once and not completed, and no later entry invoked; without a failure every
\* invoked entry has completed.
C3_AbortOnFirstFailure ==
    LET order == executionPlan.executionOrder
        k == Len(completed) + 1
    IN  /\ completed = SubSeq(order, 1, k - 1)
        /\ pc = "aborted" => (cursor = k /\ k <= Len(order) /\ invoked = SubSeq(order, 1, k))
        /\ pc # "aborted" => invoked = completed
        /\ \A i, j \in 1..Len(invoked) : invoked[i] = invoked[j] => i = j

\* The second of at least three entries failed.
C3_Witness ==
    /\ pc = "aborted"
    /\ Len(completed) = 1
    /\ Len(invoked) = 2
    /\ Len(executionPlan.executionOrder) >= 3

\* C20: every step that invokes a worker invokes exactly one, the one of the
\* next entry of the loaded plan's executionOrder, and only when every
\* invocation made before has completed successfully; so the invocations
\* follow executionOrder with no entry invoked twice.
C20_InOrderOneAtATime ==
    [][invoked' # invoked
          => /\ completed = invoked
             /\ Len(invoked) < Len(executionPlan.executionOrder)
             /\ invoked' = Append(invoked, executionPlan.executionOrder[Len(invoked) + 1])
             /\ executionPlan' = executionPlan]_vars

\* A run has invoked and completed the workers of three entries, one after
\* the other.
C20_Witness ==
    /\ pc = "done"
    /\ Len(completed) = 3
    /\ invoked = executionPlan.executionOrder

\* Planning runs i and j read the same configuration and instructions.
SameInputs(i, j) ==
    /\ created[i].agentsConfig = created[j].agentsConfig
    /\ created[i].reqText = created[j].reqText

HoldsPlanOf(i) ==
    /\ PlanPath(created[i].planId) \in DOMAIN planFiles
    /\ planFiles[PlanPath(created[i].planId)].serial = i

\* C18: any two planning runs have different planIds, and the plan file a
\* run saved is never replaced by a later run.
C18_PlanIdsDistinct ==
    /\ \A i, j \in 1..Len(created) : i # j => created[i].planId # created[j].planId
    /\ \A i \in 1..Len(created) : created[i].saved => HoldsPlanOf(i)

\* C19: plan file names of different runs sort by code units in the order
\* the runs created them, and the plan executeTasksFromPlan loads and
\* executes is the one the latest planning run created.
C19_LatestPlanIsExecuted ==
    /\ \A i, j \in 1..Len(created) :
          (i < j /\ created[i].planId # created[j].planId)
              => LexLess(CodeUnits(PlanPath(created[i].planId)),
                         CodeUnits(PlanPath(created[j].planId)))
    /\ pc \in {"executing", "done"}
          => /\ planFiles[latestPlan].serial = Len(created)
             /\ executionPlan.tasks = created[Len(created)].tasks
             /\ executionPlan.executionOrder = created[Len(created)].executionOrder

----------------------------------------------------------------------------
\* Properties of the mailbox drain

\* The request file with serial number u, as it was written.
ContentOf(u) == written[u].content

LogIdx == 1..Len(log)

\* A path lies under the output root outputs/.
UnderOutputRoot(path) == Len(path) >= 2 /\ path[1] = "outputs"

\* The request declares at least one write path under the output root.
DeclaresOutputPath(c) ==
    /\ c.policySnapshot.hasWritePaths
    /\ \E i \in 1..Len(c.policySnapshot.writePaths) :
          UnderOutputRoot(c.policySnapshot.writePaths[i])

\* A parseable request for the backend agent that the policy check rejects.
PolicyRejected(c) == c.json /\ c.to = "backend-agent" /\ ~DeclaresOutputPath(c)

\* A parseable request addressed to somebody else.
Unroutable(c) == c.json /\ c.to # "backend-agent"

\* A well-formed (parseable, with a string id), routable, policy-valid request.
ValidRequest(c) ==
    c.json /\ c.id.isString /\ c.to = "backend-agent" /\ DeclaresOutputPath(c)

\* Number of handler calls / Event writes for request u in drain number p.
CallsIn(u, p) == Cardinality({i \in LogIdx : log[i].uid = u /\ log[i].pass = p /\ log[i].called})
EventsIn(u, p) == Cardinality({i \in LogIdx : log[i].uid = u /\ log[i].pass = p /\ log[i].event})
VisitsIn(u, p) == Cardinality({i \in LogIdx : log[i].uid = u /\ log[i].pass = p})

\* The file of log entry i is in dir as the very request the entry is about.
HoldsRequest(dir, i) ==
    log[i].file \in DOMAIN dir /\ dir[log[i].file].uid = log[i].uid

\* The last drain has returned.
DrainEnded == mpc = "idle" /\ passes >= 1

\* C4: a request with no write path under outputs/, or with no writePaths at
\* all, never makes the drain call applyApiChange, in no pass.
C4_PolicyBlockedNeverInvoked ==
    \A i \in LogIdx :
        (log[i].uid # 0 /\ ContentOf(log[i].uid).json /\ ~DeclaresOutputPath(ContentOf(log[i].uid)))
            => ~log[i].called

\* Two drains have visited a routable request without writePaths and two have
\* visited one whose write paths are all outside outputs/.
C4_Witness ==
    /\ \E i, j \in LogIdx :
          /\ log[i].uid = log[j].uid /\ log[i].pass < log[j].pass
          /\ PolicyRejected(ContentOf(log[i].uid))
          /\ ~ContentOf(log[i].uid).policySnapshot.hasWritePaths
    /\ \E i, j \in LogIdx :
          /\ log[i].uid = log[j].uid /\ log[i].pass < log[j].pass
          /\ PolicyRejected(ContentOf(log[i].uid))
          /\ ContentOf(log[i].uid).policySnapshot.hasWritePaths

\* The drain that listed exactly one valid and one policy-rejected request has returned.
OneValidOneRejected ==
    /\ DrainEnded
    /\ Cardinality(DOMAIN passStart) = 2
    /\ \E f, g \in DOMAIN passStart :
          /\ ValidRequest(passStart[f].content)
          /\ PolicyRejected(passStart[g].content)

\* The files listed by the last drain that are now in _processed.
ArchivedOfPass ==
    {f \in DOMAIN passStart : f \in DOMAIN processed /\ processed[f].uid = passStart[f].uid}

C6_UnroutableUntouched ==
    \A u \in 1..Len(written) :
        Unroutable(ContentOf(u))
            => /\ written[u].file \in DOMAIN inbound
               /\ inbound[written[u].file] = [content |-> ContentOf(u), uid |-> u]
               /\ \A f \in DOMAIN processed : processed[f].uid # u
               /\ \A i \in LogIdx :
                     log[i].uid = u => ~log[i].called /\ ~log[i].event /\ ~log[i].moved

\* Two drains have visited an unroutable request.
C6_Witness ==
    \E i, j \in LogIdx :
        /\ log[i].uid = log[j].uid /\ log[i].pass < log[j].pass
        /\ Unroutable(ContentOf(log[i].uid))

\* C7: over any number of orchestrator runs applyApiChange is called at most
\* once for a request file.
C7_InvokedAtMostOnce ==
    \A u \in 1..Len(written) :
        Cardinality({i \in LogIdx : log[i].uid = u /\ log[i].called}) <= 1

\* C8 as stated: when a drain has returned, every valid request it listed
\* has been visited once, handed to applyApiChange exactly once and given
\* exactly one Event.
C8_ValidInvokedOnce ==
    DrainEnded =>
        \A f \in DOMAIN passStart :
            ValidRequest(passStart[f].content)
                => /\ VisitsIn(passStart[f].uid, passes) = 1
                   /\ CallsIn(passStart[f].uid, passes) = 1
                   /\ EventsIn(passStart[f].uid, passes) = 1

\* C8 amended: when a drain has returned every file it listed has been
\* visited exactly once, and every valid request it listed has got exactly
\* one Event and is in _processed; applyApiChange was called exactly once for
\* it if its intent is API_CHANGE and not at all otherwise.
C8_ValidHandledOnce ==
    DrainEnded =>
        \A f \in DOMAIN passStart :
            /\ VisitsIn(passStart[f].uid, passes) = 1
            /\ ValidRequest(passStart[f].content)
                => /\ CallsIn(passStart[f].uid, passes)
                        = (IF passStart[f].content.intent = "API_CHANGE" THEN 1 ELSE 0)
                   /\ EventsIn(passStart[f].uid, passes) = 1
                   /\ f \in DOMAIN processed /\ processed[f].uid = passStart[f].uid

\* A drain has returned in which a file that was not completed (unparseable,
\* unroutable or rejected) came before a valid API_CHANGE request in
\* directory order.
C8_Witness ==
    /\ DrainEnded
    /\ \E i, j \in LogIdx :
          /\ i < j /\ log[i].pass = passes /\ log[j].pass = passes
          /\ ~log[i].moved
          /\ ValidRequest(ContentOf(log[j].uid))
          /\ ContentOf(log[j].uid).intent = "API_CHANGE"
          /\ log[j].called /\ log[j].event

\* C9: in a drain that follows a complete drain with no request file added
\* since that one started, no Event is written and applyApiChange is not called.
C9_SecondDrainDoesNothing ==
    ((mpc = "draining" /\ quiet >= 1) \/ (mpc = "idle" /\ quiet >= 2))
        => \A i \in LogIdx : log[i].pass = passes => ~log[i].called /\ ~log[i].event

\* C10: an Event written after applyApiChange ran has status DONE exactly
\* when the handler succeeded, and status ERROR with the failure notes when
\* it failed.
C10_StatusReflectsHandler ==
    \A ef \in DOMAIN events :
        events[ef].notes \notin {UnknownIntentNotes(intent) : intent \in OtherIntents}
            => /\ events[ef].status = "DONE" <=> events[ef].notes # ErrorNotes
               /\ events[ef].notes = ErrorNotes => events[ef].status = "ERROR"

\* The file is not valid JSON.
NotJson(c) == ~c.json

\* The files the current / last drain has visited so far.
VisitedOfPass == {log[i].file : i \in {j \in LogIdx : log[j].pass = passes}}

\* C11: a request file that is not valid JSON stays in the inbound directory
\* as it was written (not moved, not deleted); no drain calls the worker or
\* writes an Event for it, and the drain goes on: the files it listed are
\* those it has visited and those it still has to visit, and all of them are
\* visited once when it returns.
C11_MalformedLeftInPlace ==
    /\ \A u \in 1..Len(written) :
          NotJson(ContentOf(u))
              => /\ written[u].file \in DOMAIN inbound
                 /\ inbound[written[u].file] = [content |-> ContentOf(u), uid |-> u]
                 /\ \A f \in DOMAIN processed : processed[f].uid # u
                 /\ \A i \in LogIdx :
                       log[i].uid = u => ~log[i].called /\ ~log[i].event /\ ~log[i].moved
    /\ (passes >= 1 /\ \E f \in DOMAIN passStart : NotJson(passStart[f].content))
          => /\ VisitedOfPass \cup Range(requestFiles) = DOMAIN passStart
             /\ \A f \in DOMAIN passStart :
                   VisitsIn(passStart[f].uid, passes) = (IF f \in Range(requestFiles) THEN 0 ELSE 1)

\* A drain visited a file that is not valid JSON and, after it, a valid
\* request that it completed; a later drain visited the malformed file again.
C11_Witness ==
    \E i, j, k \in LogIdx :
        /\ i < j /\ log[i].pass = log[j].pass /\ log[j].pass < log[k].pass
        /\ log[i].uid # 0 /\ NotJson(ContentOf(log[i].uid))
        /\ ValidRequest(ContentOf(log[j].uid)) /\ log[j].event /\ log[j].moved
        /\ log[k].uid = log[i].uid

\* The Event file the drain wrote in the call of log entry i.
EventFileOf(i) == EventPath(EventId(ContentOf(log[i].uid).id))

\* C13: no two request processings, in the same or in different drains,
\* write the same Event file: an Event file once written is not written again.
C13_EventNeverOverwritten ==
    \A i, j \in LogIdx :
        (i < j /\ log[i].event /\ log[j].event) => EventFileOf(i) # EventFileOf(j)

\* C14: a request file moved into _processed stays there as it was moved:
\* no later processing replaces, changes or removes it.
C14_ProcessedAppendOnly ==
    \A i \in LogIdx :
        log[i].moved
            => /\ HoldsRequest(processed, i)
               /\ processed[log[i].file].content = ContentOf(log[i].uid)

----------------------------------------------------------------------------
\* Properties of orchestrator runs seen step by step

TraceIdx == 1..Len(trace)

\* C12: once a read or write of the mailbox directories has failed in a run,
\* that run invokes no worker and executes no task afterwards.
C12_IoFailureIsFatal ==
    \A i, j \in TraceIdx :
        (i < j /\ trace[i].op = "io-error" /\ trace[j].run = trace[i].run)
            => trace[j].op \notin {"invoke", "task"}

\* Trace entries i < j < k of the same run, all about request u, with the given ops.
InOrder(run, u, op1, op2) ==
    \E j, k \in TraceIdx :
        /\ j < k
        /\ trace[j].run = run /\ trace[j].uid = u /\ trace[j].op = op1
        /\ trace[k].run = run /\ trace[k].uid = u /\ trace[k].op = op2

\* Number of worker calls for request u in run number run.
InvokesIn(u, run) ==
    Cardinality({j \in TraceIdx : trace[j].run = run /\ trace[j].uid = u /\ trace[j].op = "invoke"})

\* Request u is in dir as it was written.
Keeps(dir, u) ==
    /\ written[u].file \in DOMAIN dir
    /\ dir[written[u].file] = [content |-> ContentOf(u), uid |-> u]

\* The drain of run number run has returned.
DrainReturned(run) == \E j \in TraceIdx : trace[j].run = run /\ trace[j].op = "end"

\* The process died after it wrote the Event for a request and before it
\* moved the request: trace entry i.
CrashedBeforeMove(i) == trace[i].op = "crash" /\ trace[i].at = "written"

\* C15: when the orchestrator dies between the Event write and the rename of
\* a request, the request stays in inbound as it was written until a later
\* run moves it; once the drain of the next run has returned, that run has
\* called the worker for the request again (once, if the run that died had
\* called it), has written its Event and has then moved it to _processed:
\* at every moment the request is in inbound or has been moved to _processed.
C15_ReprocessedAfterCrash ==
    \A i \in TraceIdx :
        CrashedBeforeMove(i) =>
            LET u == trace[i].uid
                r == trace[i].run
                moved == \E j \in TraceIdx : j > i /\ trace[j].op = "rename" /\ trace[j].uid = u
            IN  /\ ~moved => Keeps(inbound, u)
                /\ DrainReturned(r + 1)
                     => /\ InvokesIn(u, r + 1) = InvokesIn(u, r)
                        /\ InvokesIn(u, r) = 1 => InOrder(r + 1, u, "invoke", "event")
                        /\ InOrder(r + 1, u, "event", "rename")

\* The orchestrator died between the Event write and the rename of a request
\* it had called the worker for; the drain of the next run has returned.
C15_Witness ==
    \E i \in TraceIdx :
        /\ CrashedBeforeMove(i)
        /\ InvokesIn(trace[i].uid, trace[i].run) = 1
        /\ DrainReturned(trace[i].run + 1)

\* C16: after a request file has been renamed into _processed no orchestrator
\* process calls the worker for that request or writes an Event for it.
C16_NothingAfterMove ==
    \A i, j \in TraceIdx :
        (i < j /\ trace[i].op = "rename" /\ trace[j].uid = trace[i].uid)
            => trace[j].op \notin {"invoke", "event"}

----------------------------------------------------------------------------
\* Properties of plan execution and of planning on faulty inputs

\* The worker names OrchestratorV2.executeAgent has a case for.
KnownWorkers ==
    {"frontend-agent", "backend-agent", "mermaid-agent", "smoke-test-agent", "readme-agent"}

\* The worker named by the k-th entry of the loaded plan's executionOrder.
WorkerAt(k) ==
    executionPlan.tasks[FindTask(executionPlan, executionPlan.executionOrder[k])].agent

\* The k-th entry of executionOrder names a task of the plan whose worker
\* executeAgent has no case for.
UnknownWorkerAt(k) ==
    /\ FindTask(executionPlan, executionPlan.executionOrder[k]) # 0
    /\ WorkerAt(k) \notin KnownWorkers

EmptyInputs(i) ==
    created[i].agentsConfig = {} \/ created[i].reqText = NoRequirements

\* C22: a planning run that reads no worker configuration or empty
\* instructions completes and yields a plan with zero tasks and an empty
\* executionOrder; the plan file it writes holds that plan; and while that
\* plan is the one executed no worker is invoked and the execution does not
\* abort.
C22_EmptyInputsGiveEmptyPlan ==
    \A i \in 1..Len(created) :
        EmptyInputs(i)
            => /\ created[i].tasks = <<>> /\ created[i].executionOrder = <<>>
               /\ pc # "start"
               /\ created[i].saved
                     => /\ PlanPath(created[i].planId) \in DOMAIN planFiles
                        /\ planFiles[PlanPath(created[i].planId)].plan = NoPlan
               /\ (latestPlan = PlanPath(created[i].planId) /\ pc \in {"executing", "done", "aborted"})
                     => (invoked = <<>> /\ pc # "aborted")

\* With a registry of several workers and empty instructions, the saved
\* zero-task plan has been loaded and executed to the end.
C22_Witness ==
    /\ pc = "done"
    /\ Cardinality(agentsConfig) >= 2
    /\ \E i \in 1..Len(created) :
          /\ created[i].reqText = NoRequirements
          /\ created[i].saved
          /\ latestPlan = PlanPath(created[i].planId)

\* config/agents.json or instructions.md is missing or cannot be loaded.
InputsBroken == inputFiles.agents # "ok" \/ inputFiles.instructions # "ok"

\* C23: when config/agents.json or instructions.md is missing or cannot be
\* loaded, no createExecutionPlan call completes with a plan, the run gets
\* no further than a fatal error, and no worker is invoked.
C23_BrokenInputsAreFatal ==
    InputsBroken
        => /\ created = <<>>
           /\ pc \in {"start", "aborted"}
           /\ invoked = <<>>

\* C24: in every plan createExecutionPlan produces, each dependency of a
\* task is the id of a task of the same plan, no task depends on its own id,
\* and the dependencies have no cycle.
C24_DependenciesWellFormed ==
    pc # "start"
        => /\ \A i \in 1..Len(executionPlan.tasks) :
                 /\ executionPlan.tasks[i].dependencies \subseteq Ids(executionPlan.tasks)
                 /\ executionPlan.tasks[i].id \notin executionPlan.tasks[i].dependencies
           /\ Acyclic(executionPlan.tasks)

\* In plan p every task with action `test` depends on exactly the tasks
\* with action `enhancement`.
DependsOnAction(p, test, enhancement) ==
    \A i, j \in 1..Len(p.tasks) :
        (p.tasks[i].action = test /\ p.tasks[j].action = enhancement)
            => p.tasks[i].dependencies = {p.tasks[j].id}

\* C25: in every plan createExecutionPlan produces, the generate_frontend_tests
\* task depends on the id of the plan's enhance_frontend task and the
\* generate_backend_tests task on the id of the plan's enhance_backend task.
C25_TestsDependOnEnhancement ==
    pc # "start"
        => /\ DependsOnAction(executionPlan, "generate_frontend_tests", "enhance_frontend")
           /\ DependsOnAction(executionPlan, "generate_backend_tests", "enhance_backend")

\* C26: an orchestrator run performs exactly one mailbox drain pass, and the
\* pass is over before the first worker of a task is invoked: when a worker
\* has been invoked, and when the run has ended, one pass has been started
\* and none is in progress.
C26_OneDrainBeforeTasks ==
    (invoked # <<>> \/ pc = "done") => (passes = 1 /\ mpc = "idle")

----------------------------------------------------------------------------
\* Properties of rejected requests and of the files the backend agent writes

\* C27: every policy-rejected request a drain has visited is recorded by an
\* Event whose correlates field is the request's id and whose status is
\* ERROR, and the rejection does not end the drain: the files the drain
\* listed are those it has visited and those it still has to visit.
C27_RejectionRecordedAsError ==
    /\ \A i \in LogIdx :
          (log[i].uid # 0 /\ PolicyRejected(ContentOf(log[i].uid)))
              => /\ log[i].event
                 /\ \E e \in DOMAIN events :
                       /\ events[e].correlates = ContentOf(log[i].uid).id
                       /\ events[e].status = "ERROR"
    /\ (passes >= 1 /\ \E f \in DOMAIN passStart : PolicyRejected(passStart[f].content))
          => VisitedOfPass \cup Range(requestFiles) = DOMAIN passStart

\* A file path lies in the directory outputs/backend or below it.
UnderOutputsBackend(path) ==
    Len(path) >= 3 /\ path[1] = "outputs" /\ path[2] = "backend"

\* C28: every file the backend agent has written while handling a mailbox
\* request that passed the policy check lies under outputs/backend/.
C28_BackendWritesUnderOutputsBackend ==
    \A path \in DOMAIN outputs :
        outputs[path].writer = "applyApiChange" => UnderOutputsBackend(path)

----------------------------------------------------------------------------
\* Properties of the workers of a plan and of the selection step

\* The worker names the requirement patterns call for.
MatchedWorkers(rt) ==
    (IF rt.frontend THEN {"frontend-agent", "frontend-tests-agent"} ELSE {})
    \cup (IF rt.backend THEN {"backend-agent", "backend-tests-agent"} ELSE {})
    \cup (IF rt.diagram THEN {"mermaid-agent"} ELSE {})

\* The worker names of the tasks of plan p.
WorkersOf(p) == {p.tasks[i].agent : i \in 1..Len(p.tasks)}

\* C29: every task of a plan names a worker of the registry the planning run
\* loaded, and a worker the requirements call for that is not registered has
\* no task in the plan.
C29_TasksNameRegisteredWorkers ==
    pc # "start"
        => /\ WorkersOf(executionPlan) \subseteq agentsConfig
           /\ \A w \in MatchedWorkers(reqText) \ agentsConfig : w \notin WorkersOf(executionPlan)

\* A plan with at least two tasks was made while two workers the
\* requirements call for are not registered.
C29_Witness ==
    /\ pc = "planned"
    /\ Len(executionPlan.tasks) >= 2
    /\ Cardinality(MatchedWorkers(reqText) \ agentsConfig) >= 2

\* The position of the task with this id in the task list: its creation order.
CreatedAt(id) == CHOOSE i \in 1..Len(tasks) : tasks[i].id = id

\* The remaining tasks whose dependencies have all been emitted.
ReadyTasks == {t \in Range(remaining) : t.dependencies \subseteq Range(executed)}

\* Task t goes before task u: smaller priority number, or the same priority
\* and created no later.
GoesBefore(t, u) ==
    \/ t.priority < u.priority
    \/ t.priority = u.priority /\ CreatedAt(t.id) <= CreatedAt(u.id)

\* C30: in every step of the loop of determineExecutionOrder taken while at
\* least one remaining task is ready, the id appended to the order is that of
\* a ready task whose priority number is the smallest among the ready tasks
\* and, among the ready tasks of that priority, the one created first; that
\* task and no other leaves the remaining tasks.
C30_SelectsFirstReadyByPriority ==
    [][(opc = "loop" /\ executed' # executed /\ ReadyTasks # {})
          => \E t \in ReadyTasks :
                /\ \A u \in ReadyTasks : GoesBefore(t, u)
                /\ executed' = Append(executed, t.id)
                /\ Range(remaining') = Range(remaining) \ {t}]_vars

\* The first selection passed over a task of smaller priority number that
\* was not ready and chose between two ready tasks of equal priority.
C30_Witness ==
    /\ opc = "loop" /\ Len(executed) = 1
    /\ executed[1] # SortByPriority(tasks)[1].id
    /\ \E i, j \in 1..Len(tasks) :
          /\ i < j /\ tasks[i].id = executed[1]
          /\ tasks[i].priority = tasks[j].priority
          /\ tasks[i].dependencies = {} /\ tasks[j].dependencies = {}
          /\ SortByPriority(tasks)[1].priority < tasks[i].priority

----------------------------------------------------------------------------
\* Properties of the fallback of determineExecutionOrder and of its termination

\* A step of the loop taken while no remaining task is ready.
FallbackStep == opc = "loop" /\ executed' # executed /\ ReadyTasks = {}

\* C31 as stated: when no remaining task is ready the loop selects the
\* remaining task that was created first.
C31_FallbackInDeclarationOrder ==
    [][FallbackStep
          => \E t \in Range(remaining) :
                /\ \A u \in Range(remaining) : CreatedAt(t.id) <= CreatedAt(u.id)
                /\ executed' = Append(executed, t.id)
                /\ Range(remaining') = Range(remaining) \ {t}]_vars

\* C31 amended: when no remaining task is ready the loop selects the head of
\* the priority-sorted remaining list: the remaining task of smallest
\* priority number and, among those of that priority, the one created first.
C31_FallbackInPriorityOrder ==
    [][FallbackStep
          => \E t \in Range(remaining) :
                /\ \A u \in Range(remaining) : GoesBefore(t, u)
                /\ executed' = Append(executed, t.id)
                /\ Range(remaining') = Range(remaining) \ {t}]_vars

\* No task was ready at the start and the first selection took a task other
\* than the one created first.
C31_Witness ==
    /\ opc = "loop" /\ Len(executed) = 1
    /\ \A i \in 1..Len(tasks) : tasks[i].dependencies # {}
    /\ executed[1] # tasks[1].id

\* C32: every iteration of the loop of determineExecutionOrder selects
\* exactly one remaining task, whatever the dependencies are, so the number
\* of iterations never exceeds the number of tasks and the loop has ended,
\* with no task remaining, after as many iterations as there are tasks.
C32_OrderTerminates ==
    /\ iterations = Len(executed)
    /\ iterations <= Len(tasks)
    /\ opc = "loop" => Len(executed) + Len(remaining) = Len(tasks)
    /\ (opc = "loop" /\ remaining = <<>>) => iterations = Len(tasks)
    /\ opc = "done" => (iterations = Len(tasks) /\ remaining = <<>>)

\* The call has returned, after three iterations, for a list of three tasks
\* of which two depend on each other.
C32_Witness ==
    /\ opc = "done" /\ Len(tasks) >= 3
    /\ \E i, j \in 1..Len(tasks) :
          /\ i # j
          /\ tasks[i].id \in tasks[j].dependencies
          /\ tasks[j].id \in tasks[i].dependencies
    /\ iterations = Len(tasks)

----------------------------------------------------------------------------
\* Properties of the diagram task and of the workers the planner assigns

\* C33: in every plan with a generate_diagram task, that task has no
\* dependencies and its id is the last entry of executionOrder, behind the
\* ids of all enhancement and test-generation tasks.
C33_DiagramRunsLast ==
    pc # "start"
        => \A i \in 1..Len(executionPlan.tasks) :
              executionPlan.tasks[i].action = "generate_diagram"
                  => /\ executionPlan.tasks[i].dependencies = {}
                     /\ executionPlan.executionOrder[Len(executionPlan.executionOrder)]
                           = executionPlan.tasks[i].id
                     /\ \A j \in 1..Len(executionPlan.tasks) :
                           j # i => Before(executionPlan.executionOrder,
                                           executionPlan.tasks[j].id,
                                           executionPlan.tasks[i].id)

----------------------------------------------------------------------------
\* Properties of analyzeRequirements

\* The lines of a text: what stands between its line breaks.
RECURSIVE SplitLines(_)
SplitLines(t) ==
    IF \A i \in 1..Len(t) : t[i] # NewLine THEN <<t>>
    ELSE LET k == CHOOSE i \in 1..Len(t) :
                     t[i] = NewLine /\ \A j \in 1..(i - 1) : t[j] # NewLine
         IN  <<SubSeq(t, 1, k - 1)>> \o SplitLines(SubSeq(t, k + 1, Len(t)))

\* The length of the marker a line begins with in its first column: digits
\* and a period, a dash or an asterisk; 0 if it begins with none.
MarkerLength(line) ==
    IF line = <<>> THEN 0
    ELSE IF line[1] \in {"-", "*"} THEN 1
    ELSE IF \E k \in 1..(Len(line) - 1) :
               line[k + 1] = "." /\ \A j \in 1..k : line[j] \in {"1", "2"}
         THEN 1 + (CHOOSE k \in 1..(Len(line) - 1) :
                      line[k + 1] = "." /\ \A j \in 1..k : line[j] \in {"1", "2"})
    ELSE 0

\* A line with nothing but white space.
Blank(line) == \A i \in 1..Len(line) : line[i] = " "

\* The line without the digits, periods, dashes, asterisks and blanks it
\* begins with and without the blanks it ends with.
RECURSIVE ItemText(_)
ItemText(line) ==
    IF line = <<>> THEN <<>>
    ELSE IF Head(line) \in {"1", "2", ".", "-", "*", " "} THEN ItemText(Tail(line))
    ELSE IF line[Len(line)] = " " THEN ItemText(SubSeq(line, 1, Len(line) - 1))
    ELSE line

\* The implied requirements of the table, in table order, whose keyword
\* occurs in the text and which are not among the items.
ImpliedRequirements(t, items) ==
    LET Wanted(p) == (\E i \in 1..Len(t) : p.keyword \in KeywordsIn(t[i]))
                     /\ p.req \notin Range(items)
        wanted == SelectSeq(Patterns, Wanted)
    IN  [i \in 1..Len(wanted) |-> wanted[i].req]

\* The items as stated: each line that begins with a marker and whose text
\* behind the marker is longer than 10 characters, the line as it is written.
RECURSIVE VerbatimItems(_)
VerbatimItems(lines) ==
    IF lines = <<>> THEN <<>>
    ELSE LET line == Head(lines)
             text == Trim(SubSeq(line, MarkerLength(line) + 1, Len(line)))
         IN  (IF MarkerLength(line) > 0 /\ TextLength(text) > 10 THEN <<line>> ELSE <<>>)
             \o VerbatimItems(Tail(lines))

\* C34 as stated: the result is every numbered or bulleted line whose text
\* behind the marker is longer than 10 characters, verbatim and in order,
\* duplicates kept, followed by each implied requirement whose keyword
\* occurs in the instructions and which is not already in the result.
C34_ItemsVerbatimThenImplied ==
    apc = "done"
        => LET items == VerbatimItems(SplitLines(document))
           IN  requirements = items \o ImpliedRequirements(document, items)

\* The items as the code extracts them, line by line: a line that begins
\* with a marker gives its text without the leading digits, periods,
\* dashes, asterisks and blanks and without trailing blanks; when only
\* blanks follow the marker, the text is taken in the same way from the next
\* line that is not blank, which is used up by it; a text counts when it is
\* longer than 10 characters.
RECURSIVE StrippedItems(_)
StrippedItems(lines) ==
    IF lines = <<>> THEN <<>>
    ELSE LET line == Head(lines) IN
         IF MarkerLength(line) = 0 THEN StrippedItems(Tail(lines))
         ELSE IF ~Blank(SubSeq(line, MarkerLength(line) + 1, Len(line)))
         THEN (IF TextLength(ItemText(line)) > 10 THEN <<ItemText(line)>> ELSE <<>>)
              \o StrippedItems(Tail(lines))
         ELSE IF \A j \in 2..Len(lines) : Blank(lines[j]) THEN <<>>
         ELSE LET j == CHOOSE k \in 2..Len(lines) :
                           ~Blank(lines[k]) /\ \A l \in 2..(k - 1) : Blank(lines[l])
              IN  (IF TextLength(ItemText(lines[j])) > 10 THEN <<ItemText(lines[j])>> ELSE <<>>)
                  \o StrippedItems(SubSeq(lines, j + 1, Len(lines)))

\* C34 amended: the result is, in order and with duplicates kept, the text
\* of every item without its marker, followed by each implied requirement
\* whose keyword occurs in the instructions and which is not already in the
\* result.
C34_ItemsStrippedThenImplied ==
    apc = "done"
        => LET items == StrippedItems(SplitLines(document))
           IN  requirements = items \o ImpliedRequirements(document, items)

\* The same numbered item was analysed twice in one document, and a document
\* held an item that is itself an implied requirement.
C34_Witness ==
    /\ apc = "done"
    /\ \/ /\ document = <<"1", ".", " ", PhoneLine, NewLine, "1", ".", " ", PhoneLine>>
          /\ Len(requirements) = 3
       \/ /\ document = <<"*", " ", BackendRequired, NewLine, "1", ".", " ", PhoneLine>>
          /\ Len(requirements) = 4

----------------------------------------------------------------------------
\* Properties of a failed plan write, of Events and moves, of concurrent
\* drains and of requests with another intent

\* The latest planning run could not write its plan file.
LastSaveFailed == created # <<>> /\ ~created[Len(created)].saved

C36_ProcessedHasItsEvent ==
    \A f \in DOMAIN processed :
        \E e \in DOMAIN events : events[e].correlates = processed[f].content.id

\* C37: when two orchestrator processes drain the same mailbox at the same
\* time and rename is atomic, the worker is called at most once for a
\* request file (here: for one whose id is a string, so that a single process
\* would move it in the run that calls the worker for it).
C37_ConcurrentInvokedOnce ==
    \A i, j \in TraceIdx :
        (/\ trace[i].op = "invoke" /\ trace[j].op = "invoke"
         /\ trace[i].uid = trace[j].uid
         /\ ContentOf(trace[i].uid).id.isString)
            => i = j

\* C38: every worker name a planner-made plan assigns to a task is one
\* OrchestratorV2.executeAgent has a case for, so the execution of such a
\* plan is never aborted at a task whose worker is unknown.
C38_PlannedWorkersAreKnown ==
    pc # "start"
        => /\ WorkersOf(executionPlan) \subseteq KnownWorkers
           /\ pc = "aborted" => ~UnknownWorkerAt(cursor)

\* The run of the orchestrator process that started last is over.
RunOver == passes >= 1 /\ orch[1].pc = "off"

\* The artifact paths of the Event written at trace entry i.
ArtifactsAt(i) ==
    IF ContentOf(trace[i].uid).intent = "API_CHANGE"
    THEN Range(ApplyApiChange(ContentOf(trace[i].uid).payload).artifacts)
    ELSE {}

\* C39: when a processInstructions run is over, every artifact path listed
\* in an Event written during its drain still holds a file the request
\* handler wrote: no task executed later in the run has replaced or removed
\* it.
C39_ArtifactsSurviveTheRun ==
    RunOver
        => \A i \in TraceIdx :
              (trace[i].op = "event" /\ trace[i].run = passes)
                  => \A path \in ArtifactsAt(i) :
                        /\ path \in DOMAIN outputs
                        /\ outputs[path].writer = "applyApiChange"

\* The request the drain handled last is a well-formed, routable,
\* policy-valid request whose intent is not API_CHANGE.
HandledOtherIntent ==
    /\ log # <<>>
    /\ ValidRequest(ContentOf(log[Len(log)].uid))
    /\ ContentOf(log[Len(log)].uid).intent # "API_CHANGE"

\* The notes of the Event written for a request with this intent when no
\* worker handles the intent.
NotesNaming(intent) ==
    CASE intent = "DB_CHANGE" -> "Unknown intent: DB_CHANGE"

====
